---------------------------- MODULE Spec2Model ----------------------------
(***************************************************************************)
(* Model of the observe / decide / act loop of playwright_dom_agent:       *)
(*   PageSnapshot.capture            (playwright_llm_agent.py, snapshot.py)*)
(*   PlaywrightLLMAgent.execute_action, process_command                    *)
(*                                   (playwright_llm_agent.py)             *)
(*   PlaywrightLLMAgent.process_command (agent.py, the refactored loop)    *)
(*                                                                         *)
(* Python strings are sequences of tokens (a snapshot is the sequence of   *)
(* its lines, an outcome string the sequence of its literal parts and      *)
(* interpolated values); "Error" in s is decided token by token.         *)
(* Python dicts are functions from key strings to value strings; None is   *)
(* the value PyNone and a nested dict d[k] is flattened to the keys "k.x". *)
(***************************************************************************)
EXTENDS Integers, Sequences, FiniteSets, TLC

\* ------------------------------------------------------------------------
\* Bounds of the environment explored by TLC
\* ------------------------------------------------------------------------
\* number of environment choices of one command that may differ from the
\* nominal ones (planner repeats its action, browser call succeeds, page
\* unchanged, capture served by the direct serialisation)
FaultBudget == 1

\* the non-nominal choices fall in the first FaultWindow loop iterations
\* (a planner response that ends the command may come at any iteration)
FaultWindow == 1

\* a small max_steps argument given to agent.py's process_command besides
\* its default
SmallSteps == 2

\* process_command calls made on one agent
MaxCommands == 2

\* ------------------------------------------------------------------------
\* Program constants
\* ------------------------------------------------------------------------
max_actions == 15

default_max_steps == 15

\* ------------------------------------------------------------------------
\* Python values
\* ------------------------------------------------------------------------
PyNone == "None"

\* bool(v) of a str-or-None value
Truthy(v) == v \notin {PyNone, ""}

\* dict.get(k) with the default None
Get(d, k) == IF k \in DOMAIN d THEN d[k] ELSE PyNone

\* dict.get(k, default)
GetOr(d, k, dflt) == IF k \in DOMAIN d THEN d[k] ELSE dflt

\* None and {} are both falsy and no code path tells them apart
NoAction == [k \in {} |-> ""]

\* a planner "action" that is a JSON string or list instead of an object
NonDictKey == "$nondict"

IsDict(a) == NonDictKey \notin DOMAIN a

\* bool(action)
ActionTruthy(a) == DOMAIN a # {}

\* ------------------------------------------------------------------------
\* Substring tests on tokens
\* ------------------------------------------------------------------------
\* the tokens of the model's vocabulary that contain the substring "Error:"
ErrorColonTokens ==
    { "Error: Could not capture page snapshot",
      "Error: Could not navigate to page",
      "- text: Error: denied [ref=e1]",
      "- generic [ref=e1]: Error: denied",
      "Error: denied",
      "Error: strict mode violation",
      "Error: No ref, text, or selector specified for click action",
      "Error: Could not find and click element",
      "Error: No ref or selector specified for type action",
      "Error: Could not find input element",
      "Error: No ref or selector specified for select action",
      "Error: Wait action requires timeout or selector",
      "Error: No ref specified for extract action",
      "Error: No url specified for navigate action",
      "Error: Unknown action type",
      "Error: No action type specified in",
      "Error: could not navigate" }

\* the tokens that contain the substring "Error"
ErrorTokens == ErrorColonTokens \cup { "Error executing", "Error", "#Error" }

\* no outcome is ever taken for an error
HasError_Never(s) == FALSE

\* "Error" in s
HasError(s) == \E i \in DOMAIN s : s[i] \in ErrorTokens

\* "Error:" in s
HasErrorColon(s) == \E i \in DOMAIN s : s[i] \in ErrorColonTokens

\* ------------------------------------------------------------------------
\* The page (browser collaborator): what the DOM serialises to
\* ------------------------------------------------------------------------
Pages == { "pA", "pB", "pErr" }

\* result of page.evaluate(snapshot.js): the lines of the aria snapshot
DirectLines(p) ==
    CASE p = "pA"   -> << "- textbox \"q\" [ref=e1]", "- button \"Search\" [ref=e2]" >>
      [] p = "pB"   -> << "- link \"Next\" [ref=e1]" >>
      [] p = "pErr" -> << "- text: Error: denied [ref=e1]" >>

\* document.body.textContent.trim().slice(0, 500)
BodyText(p) ==
    CASE p = "pA"   -> "q Search"
      [] p = "pB"   -> "Next"
      [] p = "pErr" -> "Error: denied"

\* f"- generic [ref=e1]: {body_text}"
FallbackLine(p) ==
    CASE p = "pA"   -> "- generic [ref=e1]: q Search"
      [] p = "pB"   -> "- generic [ref=e1]: Next"
      [] p = "pErr" -> "- generic [ref=e1]: Error: denied"

\* ------------------------------------------------------------------------
\* PageSnapshot
\* ------------------------------------------------------------------------
\* snapshot_data = None
NoSnapshot == << >>

ErrorSnapshot == << "Error: Could not capture page snapshot" >>

NoChangeMarker == << "- Page Snapshot (no structural changes)" >>

\* (the Markdown code fence is written ~~~ in this module)
format_snapshot(snapshot_text) ==
    << "- Page Snapshot", "~~~yaml" >> \o snapshot_text \o << "~~~" >>

\* difflib.unified_diff yields no line exactly when the two line lists are
\* equal; otherwise the block lists the removed and the added lines
compute_diff(old, new) ==
    IF old = new
    THEN NoChangeMarker
    ELSE << "- Page Snapshot (diff)", "~~~diff", "--- prev", "+++ curr" >>
            \o old \o << "@@" >> \o new \o << "~~~" >>

\* outcomes of the browser calls of one capture:
\*   "direct"  page.evaluate(snapshot.js) returned the serialisation
\*   "empty"   it raised or returned nothing; the fallback calls succeed
\*   "fb_fail" it raised or returned nothing and the fallback raised too
\*   "raise"   page.url or wait_for_load_state raised
CaptureOutcomes == { "direct", "empty", "fb_fail", "raise" }

fallback_snapshot(p, co) ==
    IF co = "fb_fail"
    THEN ErrorSnapshot
    ELSE << "- Page Snapshot", "~~~yaml", FallbackLine(p), "~~~" >>

\* the full text a capture samples from the page (before any diff)
Sampled(p, co) ==
    CASE co = "raise"  -> ErrorSnapshot
      [] co = "direct" -> format_snapshot(DirectLines(p))
      [] OTHER         -> fallback_snapshot(p, co)

\* a capture that diffs against the stored snapshot even when there is none
capture_AlwaysDiff(data, p, co, force_refresh, diff_only) ==
    IF co = "raise" THEN [out |-> ErrorSnapshot, data |-> data]
    ELSE LET text == Sampled(p, co)
         IN  [out  |-> IF diff_only THEN compute_diff(data, text) ELSE text,
              data |-> IF co = "direct" THEN text ELSE data]

\* a capture with the short-circuit of the comment of lines 60-63: the
\* stored snapshot is served unless a refresh or a diff is asked for
capture_Cached(data, p, co, force_refresh, diff_only) ==
    IF ~force_refresh /\ data # NoSnapshot /\ ~diff_only
    THEN [out |-> data, data |-> data]
    ELSE IF co = "raise" THEN [out |-> ErrorSnapshot, data |-> data]
    ELSE LET text == Sampled(p, co)
         IN  [out  |-> IF diff_only /\ data # NoSnapshot
                       THEN compute_diff(data, text) ELSE text,
              data |-> IF co = "direct" THEN text ELSE data]

\* a capture whose exception handler drops the stored snapshot
capture_ForgetsOnError(data, p, co, force_refresh, diff_only) ==
    IF co = "raise" THEN [out |-> ErrorSnapshot, data |-> NoSnapshot]
    ELSE LET text == Sampled(p, co)
         IN  [out  |-> IF diff_only /\ data # NoSnapshot
                       THEN compute_diff(data, text) ELSE text,
              data |-> IF co = "direct" THEN text ELSE data]

\* capture(force_refresh, diff_only): [out |-> returned text,
\*                                     data |-> snapshot_data afterwards]
\* force_refresh is not read by the code.
capture(data, p, co, force_refresh, diff_only) ==
    CASE co = "raise" ->
           [out |-> ErrorSnapshot, data |-> data]
      [] co = "direct" ->
           LET formatted_snapshot == format_snapshot(DirectLines(p))
           IN  [out  |-> IF diff_only /\ data # NoSnapshot
                         THEN compute_diff(data, formatted_snapshot)
                         ELSE formatted_snapshot,
                \* _update_cache
                data |-> formatted_snapshot]
      [] OTHER ->
           LET fallback == fallback_snapshot(p, co)
           IN  [out  |-> IF diff_only /\ data # NoSnapshot
                         THEN compute_diff(data, fallback)
                         ELSE fallback,
                data |-> data]

\* ------------------------------------------------------------------------
\* PageSnapshot.capture: the browser calls behind one capture
\* ------------------------------------------------------------------------
\* the outcome of each browser call one capture can make:
\*   url    self.page.url (line 58)
\*   ready  page.wait_for_load_state('domcontentloaded', timeout=5000)
\*   eval   page.evaluate(snapshot.js): a serialisation, nothing, an exception
\*   title  page.title() and body: page.evaluate(...) of _fallback_snapshot
CaptureAnswers ==
    [ url : { "ok", "raise" }, ready : { "ok", "raise" },
      eval : { "ok", "empty", "raise" },
      title : { "ok", "raise" }, body : { "ok", "raise" } ]

\* the browser calls a capture makes, in order: the calls after a raise in
\* the body of capture are not made; the fallback runs when the
\* serialisation gave nothing
CaptureCallsMade(b) ==
    IF b.url = "raise" THEN << "url" >>
    ELSE IF b.ready = "raise" THEN << "url", "ready" >>
    ELSE IF b.eval = "ok" THEN << "url", "ready", "eval" >>
    ELSE IF b.title = "raise" THEN << "url", "ready", "eval", "title" >>
    ELSE << "url", "ready", "eval", "title", "body" >>

\* the browser behaviours of one capture: a call that is not made has no
\* answer (written "ok")
CaptureBrowser ==
    { b \in CaptureAnswers :
        \A site \in { "url", "ready", "eval", "title", "body" } :
          (\A i \in DOMAIN CaptureCallsMade(b) : CaptureCallsMade(b)[i] # site)
             => b[site] = "ok" }

\* a capture whose serialisation call has no handler of its own
CaptureOutcome_NoDirectHandler(b) ==
    IF b.url = "raise" \/ b.ready = "raise" \/ b.eval = "raise" THEN "raise"
    ELSE IF b.eval = "ok" THEN "direct"
    ELSE IF b.title = "raise" \/ b.body = "raise" THEN "fb_fail"
    ELSE "empty"

\* which of the four courses of capture the browser's answers give
CaptureOutcome(b) ==
    IF b.url = "raise" \/ b.ready = "raise" THEN "raise"
    ELSE IF b.eval = "ok" THEN "direct"
    ELSE IF b.title = "raise" \/ b.body = "raise" THEN "fb_fail"
    ELSE "empty"

\* the calls that raised during the capture
CaptureRaised(b) ==
    { site \in { "url", "ready", "eval", "title", "body" } :
        /\ \E i \in DOMAIN CaptureCallsMade(b) : CaptureCallsMade(b)[i] = site
        /\ b[site] = "raise" }

\* a capture whose body is not wrapped
CaptureHandled_NoOuterTry == { "eval", "title", "body" }

\* the calls made inside a try block with an `except Exception`: page.url and
\* the readiness wait (handler of line 109), the serialisation (line 125),
\* title and body text (line 235)
CaptureHandled == { "url", "ready", "eval", "title", "body" }

\* an exception leaves capture
capture_escapes(b) == CaptureRaised(b) \ CaptureHandled # {}

\* ------------------------------------------------------------------------
\* Actions (planner wire shape) and their normalisation
\* ------------------------------------------------------------------------
\* the value of a key whose JSON value is an object
DictMark == "$dict"

\* JSON numbers of the vocabulary
NumTokens == { "2000", "300" }

\* isinstance(v, str)
IsStr(v) == v \notin ({DictMark, PyNone} \cup NumTokens)

\* isinstance(v, dict)
IsDictValue(v) == v = DictMark

\* a planner interface that hands every action on as received
fix_action_format_AsReceived(action) == action

\* a normalisation that rewrites one level at a time: the string form of a
\* legacy click becomes the nested form, the nested form becomes the flat one
fix_action_format_Stepwise(action) ==
    IF ~ActionTruthy(action) \/ ~IsDict(action) THEN action
    ELSE IF "type" \in DOMAIN action THEN action
    ELSE IF "click" \in DOMAIN action /\ IsStr(action["click"])
    THEN ("click" :> DictMark) @@ ("click.ref" :> action["click"])
    ELSE IF "click" \in DOMAIN action /\ IsDictValue(action["click"])
    THEN ("type" :> "click") @@ ("ref" :> Get(action, "click.ref"))
    ELSE action

\* _fix_action_format
fix_action_format(action) ==
    IF ~ActionTruthy(action) \/ ~IsDict(action) THEN action
    ELSE IF "type" \in DOMAIN action THEN action
    ELSE IF "click" \in DOMAIN action THEN
        IF IsStr(action["click"])
        THEN ("type" :> "click") @@ ("ref" :> action["click"])
        ELSE IF IsDictValue(action["click"])
        THEN ("type" :> "click") @@ ("ref" :> Get(action, "click.ref"))
        ELSE action
    \* (the branch `elif 'type' in action` is unreachable here)
    ELSE IF "select" \in DOMAIN action THEN
        IF IsDictValue(action["select"])
        THEN ("type" :> "select") @@ ("ref" :> Get(action, "select.ref"))
             @@ ("value" :> GetOr(action, "select.value", ""))
        ELSE action
    ELSE IF "extract" \in DOMAIN action THEN
        IF IsDictValue(action["extract"])
        THEN ("type" :> "extract") @@ ("ref" :> Get(action, "extract.ref"))
             @@ ("variable" :> GetOr(action, "extract.variable", "result"))
        ELSE action
    ELSE IF "scroll" \in DOMAIN action THEN
        IF IsDictValue(action["scroll"])
        THEN ("type" :> "scroll")
             @@ ("direction" :> GetOr(action, "scroll.direction", "down"))
             @@ ("amount" :> GetOr(action, "scroll.amount", "300"))
        ELSE action
    ELSE IF "wait" \in DOMAIN action THEN
        IF IsDictValue(action["wait"])
        THEN IF "wait.timeout" \in DOMAIN action
             THEN ("type" :> "wait") @@ ("timeout" :> action["wait.timeout"])
             ELSE IF "wait.selector" \in DOMAIN action
             THEN ("type" :> "wait") @@ ("selector" :> action["wait.selector"])
             ELSE ("type" :> "wait") @@ ("timeout" :> "2000")
        ELSE action
    ELSE IF "finish" \in DOMAIN action THEN
        IF IsDictValue(action["finish"])
        THEN ("type" :> "finish") @@ ("ref" :> PyNone)
             @@ ("summary" :> GetOr(action, "finish.summary", "Task completed"))
        ELSE ("type" :> "finish") @@ ("ref" :> PyNone)
             @@ ("summary" :> IF Truthy(action["finish"])
                              THEN action["finish"] ELSE "Task completed")
    ELSE action

\* ------------------------------------------------------------------------
\* execute_action (playwright_llm_agent.py)
\* ------------------------------------------------------------------------
\* Outcome of the browser calls of one resolution strategy:
\*   "none"  locator(...).count() is 0
\*   "ok"    an element is found and the click / fill succeeds
\*   "raise" an element is found and the click / fill raises (or count raises)
StrategyOutcomes == { "none", "ok", "raise" }

\* str(e) of a browser exception
ExceptionMessages == { "Timeout 10000ms exceeded.", "Error: strict mode violation" }

\* The browser's answers during one execute_action call:
\*   sel, txt, ref, ext, gen  the five click strategies (sel, ref, gen also
\*                            serve the three type strategies)
\*   call   the single call of select / wait / extract / scroll / enter
\*   nav    page.goto of navigate
\*   msg    str(e) of whatever raises
Oracles ==
    [ sel : StrategyOutcomes, txt : StrategyOutcomes, ref : StrategyOutcomes,
      ext : StrategyOutcomes, gen : StrategyOutcomes,
      call : {"ok", "raise"}, nav : {"ok", "raise"}, msg : ExceptionMessages ]

\* the [ref=...] marker of a snapshot line ("" when it has none)
LineRef(line) ==
    CASE line \in { "- textbox \"q\" [ref=e1]", "- link \"Next\" [ref=e1]",
                    "- text: Error: denied [ref=e1]" } -> "e1"
      [] line = "- button \"Search\" [ref=e2]" -> "e2"
      [] OTHER -> ""

\* re.search(r'"([^"]+)"', line).group(1) ("" when there is no match)
LineQuoted(line) ==
    CASE line = "- textbox \"q\" [ref=e1]" -> "q"
      [] line = "- button \"Search\" [ref=e2]" -> "Search"
      [] line = "- link \"Next\" [ref=e1]" -> "Next"
      [] OTHER -> ""

\* click strategy 4: the quoted text of the first line of the stored
\* snapshot that carries the ref and a quoted text ("" when there is none)
TargetText(data, ref) ==
    LET hits == { i \in DOMAIN data :
                    LineRef(data[i]) = ref /\ LineQuoted(data[i]) # "" }
    IN  IF hits = {} THEN ""
        ELSE LineQuoted(data[CHOOSE i \in hits : \A j \in hits : i <= j])

\* which click strategy succeeds (0: none), lines 626-735
ClickStrategy(action, orc, data) ==
    LET ref == Get(action, "ref")
        text == Get(action, "text")
        selector == Get(action, "selector")
    IN  IF Truthy(selector) /\ orc.sel = "ok" THEN 1
        ELSE IF Truthy(text) /\ orc.txt = "ok" THEN 2
        ELSE IF Truthy(ref) /\ orc.ref = "ok" THEN 3
        ELSE IF Truthy(ref) /\ TargetText(data, ref) # "" /\ orc.ext = "ok" THEN 4
        ELSE IF orc.gen = "ok" THEN 5
        ELSE 0

\* which type strategy succeeds (0: none), lines 752-801
TypeStrategy(action, orc) ==
    LET ref == Get(action, "ref")
        selector == Get(action, "selector")
    IN  IF Truthy(selector) /\ orc.sel = "ok" THEN 1
        ELSE IF Truthy(ref) /\ orc.ref = "ok" THEN 2
        ELSE IF orc.gen = "ok" THEN 3
        ELSE 0

\* select, lines 814-822: the target is the selector when there is one, the
\* ref otherwise; wait_for_selector times out on a target that matches
\* nothing ("none"), select_option may raise on one that is found
SelectResolution(action, orc) ==
    LET target == IF Truthy(Get(action, "selector")) THEN orc.sel ELSE orc.ref
    IN  IF target = "ok" /\ orc.call = "ok" THEN "ok"
        ELSE IF target = "none" THEN "none"
        ELSE "raise"

\* a validation that lets every action through
NoTarget_Never(action) == FALSE

\* lines 622, 748, 811: the action names no target
NoTarget(action) ==
    LET t == Get(action, "type") IN
    CASE t = "click" -> ~Truthy(Get(action, "ref")) /\ ~Truthy(Get(action, "text"))
                          /\ ~Truthy(Get(action, "selector"))
      [] t \in { "type", "select" } ->
             ~Truthy(Get(action, "ref")) /\ ~Truthy(Get(action, "selector"))
      [] OTHER -> FALSE

\* an early `return` inside execute_action: the post-action capture of
\* lines 897-910 is skipped
Returned(result) == [result |-> result, post |-> FALSE, navcap |-> FALSE]

\* the branch falls through to the post-action capture
Fell(result) == [result |-> result, post |-> TRUE, navcap |-> FALSE]

\* the handler of line 892: f"Error executing {action_type}: {str(e)}"
Raised(action_type, orc) == Fell(<< "Error executing", action_type, orc.msg >>)

\* The result string of execute_action, whether its post-action capture is
\* reached (post) and whether navigate() captured before it (navcap).
\*   p          the page when the interaction has been performed
\*   data       snapshot_data at the call
execute_action(action, orc, p, data) ==
    LET action_type == Get(action, "type") IN
    IF ~ActionTruthy(action) THEN Returned(<< "No action to execute" >>)
    ELSE IF ~Truthy(action_type)
    THEN Returned(<< "Error: No action type specified in", "{action}" >>)
    ELSE IF action_type = "click" THEN
        IF NoTarget(action)
        THEN Returned(<< "Error: No ref, text, or selector specified for click action" >>)
        ELSE LET k == ClickStrategy(action, orc, data) IN
             CASE k = 1 -> Fell(<< "Successfully clicked element using selector",
                                   Get(action, "selector"), "(force)" >>)
               [] k = 2 -> Fell(<< "Successfully clicked element using text",
                                   Get(action, "text"), "(force)" >>)
               [] k = 3 -> Fell(<< "Successfully clicked element", Get(action, "ref"),
                                   "using aria-ref (force)" >>)
               [] k = 4 -> Fell(<< "Successfully clicked element", Get(action, "ref"),
                                   "using extracted text (force)" >>)
               [] k = 5 -> Fell(<< "Successfully clicked first", "button",
                                   "element as fallback (force)" >>)
               [] OTHER -> Returned(<< "Error: Could not find and click element" >>)
    ELSE IF action_type = "type" THEN
        IF NoTarget(action)
        THEN Returned(<< "Error: No ref or selector specified for type action" >>)
        ELSE LET k == TypeStrategy(action, orc)
                 text == GetOr(action, "text", "") IN
             CASE k = 1 -> Fell(<< "Successfully typed", text, "into selector",
                                   Get(action, "selector") >>)
               [] k = 2 -> Fell(<< "Successfully typed", text, "into element",
                                   Get(action, "ref"), "using aria-ref" >>)
               [] k = 3 -> Fell(<< "Successfully typed", text, "into",
                                   "input[type=\"text\"]", "element" >>)
               [] OTHER -> Returned(<< "Error: Could not find input element" >>)
    ELSE IF action_type = "select" THEN
        IF NoTarget(action)
        THEN Returned(<< "Error: No ref or selector specified for select action" >>)
        ELSE IF SelectResolution(action, orc) = "ok"
        THEN Fell(<< "Successfully selected", GetOr(action, "value", ""), "in element" >>)
        ELSE Returned(<< "Select operation failed:", orc.msg >>)
    ELSE IF action_type = "wait" THEN
        IF "timeout" \in DOMAIN action
        THEN Fell(<< "Waited for", action["timeout"], "ms" >>)
        ELSE IF "selector" \in DOMAIN action
        THEN IF orc.call = "ok"
             THEN Fell(<< "Waited for selector", action["selector"] >>)
             ELSE Raised(action_type, orc)
        ELSE Fell(<< "Error: Wait action requires timeout or selector" >>)
    ELSE IF action_type = "extract" THEN
        IF ~Truthy(Get(action, "ref"))
        THEN Returned(<< "Error: No ref specified for extract action" >>)
        ELSE IF orc.call = "ok"
        THEN Fell(<< "Extracted text:", BodyText(p), "..." >>)
        ELSE Raised(action_type, orc)
    ELSE IF action_type = "scroll" THEN
        IF orc.call = "ok"
        THEN Fell(<< "Scrolled", GetOr(action, "direction", "down"), "by",
                     GetOr(action, "amount", "300"), "px" >>)
        ELSE Raised(action_type, orc)
    ELSE IF action_type = "enter" THEN
        IF orc.call = "ok"
        THEN Fell(<< "Pressed Enter key" >>)
        ELSE Returned(<< "Enter key press failed:", orc.msg >>)
    ELSE IF action_type = "navigate" THEN
        IF ~Truthy(Get(action, "url"))
        THEN Returned(<< "Error: No url specified for navigate action" >>)
        \* navigate() turns every failure into a string, whose length is echoed
        ELSE [result |-> << "Navigated to", Get(action, "url"),
                            ". Snapshot length:", "{len}", "chars" >>,
              post |-> TRUE, navcap |-> orc.nav = "ok"]
    ELSE IF action_type = "finish"
    THEN Fell(<< "Task finished:", GetOr(action, "summary", "Task completed") >>)
    ELSE Fell(<< "Error: Unknown action type", action_type >>)

\* a classification that leaves click out
should_update_snapshot_NoClick(action) ==
    IF ~ActionTruthy(action) THEN FALSE
    ELSE GetOr(action, "type", "")
           \in { "type", "select", "scroll", "navigate", "enter" }

\* _should_update_snapshot
should_update_snapshot(action) ==
    IF ~ActionTruthy(action) THEN FALSE
    ELSE GetOr(action, "type", "")
           \in { "click", "type", "select", "scroll", "navigate", "enter" }

\* ------------------------------------------------------------------------
\* execute_action: the browser calls it issues, in order
\* ------------------------------------------------------------------------
\* one browser call: op is the driver method, by the strategy or target it
\* serves, res its outcome ("zero" / "found" for count(), "ok" / "raise")
BrowserCall(op, by, res) == [ op |-> op, by |-> by, res |-> res ]

\* one resolution strategy: locator(...).count(), then the dispatch (click,
\* fill) on a match
Attempt(op, by, so) ==
    IF so = "none"
    THEN << BrowserCall("count", by, "zero") >>
    ELSE << BrowserCall("count", by, "found"), BrowserCall(op, by, so) >>

\* a click in which every strategy whose guard holds is attempted, whatever
\* the earlier ones did
ClickCalls_NoStop(action, orc, data) ==
    LET ref == Get(action, "ref")
        text == Get(action, "text")
        selector == Get(action, "selector")
    IN  (IF Truthy(selector) THEN Attempt("click", "selector", orc.sel) ELSE << >>)
        \o (IF Truthy(text) THEN Attempt("click", "text", orc.txt) ELSE << >>)
        \o (IF Truthy(ref) THEN Attempt("click", "ref", orc.ref) ELSE << >>)
        \o (IF Truthy(ref) /\ TargetText(data, ref) # ""
            THEN Attempt("click", "extracted", orc.ext) ELSE << >>)
        \o Attempt("click", "generic", orc.gen)

\* click, lines 626-735: the five strategies, each guarded by `not success`
ClickCalls(action, orc, data) ==
    LET ref == Get(action, "ref")
        text == Get(action, "text")
        selector == Get(action, "selector")
        ok1 == Truthy(selector) /\ orc.sel = "ok"
        ok2 == ok1 \/ (Truthy(text) /\ orc.txt = "ok")
        ok3 == ok2 \/ (Truthy(ref) /\ orc.ref = "ok")
        ok4 == ok3 \/ (Truthy(ref) /\ TargetText(data, ref) # "" /\ orc.ext = "ok")
    IN  (IF Truthy(selector) THEN Attempt("click", "selector", orc.sel) ELSE << >>)
        \o (IF Truthy(text) /\ ~ok1 THEN Attempt("click", "text", orc.txt) ELSE << >>)
        \o (IF Truthy(ref) /\ ~ok2 THEN Attempt("click", "ref", orc.ref) ELSE << >>)
        \o (IF Truthy(ref) /\ ~ok3 /\ TargetText(data, ref) # ""
            THEN Attempt("click", "extracted", orc.ext) ELSE << >>)
        \o (IF ~ok4 THEN Attempt("click", "generic", orc.gen) ELSE << >>)

\* a type branch whose generic strategy is not guarded by `not success`
TypeCalls_GenericAlways(action, orc) ==
    LET ref == Get(action, "ref")
        selector == Get(action, "selector")
        ok1 == Truthy(selector) /\ orc.sel = "ok"
    IN  (IF Truthy(selector) THEN Attempt("fill", "selector", orc.sel) ELSE << >>)
        \o (IF Truthy(ref) /\ ~ok1 THEN Attempt("fill", "ref", orc.ref) ELSE << >>)
        \o Attempt("fill", "generic", orc.gen)

\* type, lines 752-801: selector, ref, generic input
TypeCalls(action, orc) ==
    LET ref == Get(action, "ref")
        selector == Get(action, "selector")
        ok1 == Truthy(selector) /\ orc.sel = "ok"
        ok2 == ok1 \/ (Truthy(ref) /\ orc.ref = "ok")
    IN  (IF Truthy(selector) THEN Attempt("fill", "selector", orc.sel) ELSE << >>)
        \o (IF Truthy(ref) /\ ~ok1 THEN Attempt("fill", "ref", orc.ref) ELSE << >>)
        \o (IF ~ok2 THEN Attempt("fill", "generic", orc.gen) ELSE << >>)

\* select, lines 814-822: one target, no second strategy
SelectCalls(action, orc) ==
    LET by == IF Truthy(Get(action, "selector")) THEN "selector" ELSE "ref"
        target == IF by = "selector" THEN orc.sel ELSE orc.ref
    IN  IF target = "none"
        THEN << BrowserCall("wait_for_selector", by, "raise") >>
        ELSE << BrowserCall("wait_for_selector", by, "ok"),
                BrowserCall("select_option", by, SelectResolution(action, orc)) >>

\* The browser calls of one execute_action call before its post-action
\* capture; stable is the outcome of the readiness wait of wait_for_page_stable
BrowserCalls(action, orc, stable, data) ==
    LET t == Get(action, "type") IN
    IF ~ActionTruthy(action) \/ ~Truthy(t) THEN << >>
    ELSE << BrowserCall("wait_for_load_state", "page", stable) >> \o
         (CASE t \in { "click", "type", "select" } /\ NoTarget(action) -> << >>
            [] t = "click" /\ ~NoTarget(action) -> ClickCalls(action, orc, data)
            [] t = "type" /\ ~NoTarget(action) -> TypeCalls(action, orc)
            [] t = "select" /\ ~NoTarget(action) -> SelectCalls(action, orc)
            [] t = "wait" ->
                 IF "timeout" \notin DOMAIN action /\ "selector" \in DOMAIN action
                 THEN << BrowserCall("wait_for_selector", "selector", orc.call) >>
                 ELSE << >>
            [] t = "extract" ->
                 IF ~Truthy(Get(action, "ref")) THEN << >>
                 ELSE << BrowserCall("wait_for_selector", "ref", orc.call) >>
                      \o (IF orc.call = "ok"
                          THEN << BrowserCall("text_content", "ref", "ok") >>
                          ELSE << >>)
            [] t = "scroll" -> << BrowserCall("evaluate", "page", orc.call) >>
            [] t = "enter" ->
                 IF Truthy(Get(action, "ref")) \/ Truthy(Get(action, "selector"))
                 THEN << BrowserCall("focus",
                                     IF Truthy(Get(action, "ref")) THEN "ref"
                                     ELSE "selector", orc.call) >>
                      \o (IF orc.call = "ok"
                          THEN << BrowserCall("keyboard.press", "page", "ok") >>
                          ELSE << >>)
                 ELSE << BrowserCall("keyboard.press", "page", orc.call) >>
            [] t = "navigate" ->
                 IF ~Truthy(Get(action, "url")) THEN << >>
                 ELSE << BrowserCall("goto", "page", orc.nav) >>
            [] OTHER -> << >>)

\* the handler of a browser call of execute_action
CallSite(c) ==
    CASE c.op = "wait_for_load_state" -> "stable"
      [] c.op \in { "count", "click", "fill" } -> "strategy"
      [] OTHER -> "outer"

\* the places of an execute_action call where an exception is raised
ExecRaised(action, orc, stable, data) ==
    LET calls == BrowserCalls(action, orc, stable, data) IN
    (IF ActionTruthy(action) /\ ~IsDict(action) THEN { "get_type" } ELSE {})
      \cup { CallSite(calls[i]) : i \in { j \in DOMAIN calls : calls[j].res = "raise" } }

\* an execute_action without the handler of line 892
ExecHandled_NoOuterTry == { "stable", "strategy", "capture" }

\* the places covered by an `except Exception`: wait_for_page_stable (line
\* 520), each resolution strategy (lines 640-734, 763-800), the try block of
\* lines 612-895 with the handlers of select (821), enter (874) and line 892,
\* the post-action capture (line 909). action.get('type') of line 604 is
\* outside every try block.
ExecHandled == { "stable", "strategy", "outer", "capture" }

\* an exception leaves execute_action
execute_escapes(action, orc, stable, data) ==
    ExecRaised(action, orc, stable, data) \ ExecHandled # {}

\* a post-action step that lets a failed capture replace the outcome
AfterCapture_Masking(result, captured, raised) ==
    IF raised THEN << "Error executing", "capture" >>
    ELSE IF captured = ErrorSnapshot THEN captured
    ELSE result

\* lines 897-912: the post-action capture is compared and printed, an
\* exception of it is printed; `result` is returned as it was
AfterCapture(result, captured, raised) == result

\* ------------------------------------------------------------------------
\* agent.py: the collaborators of the refactored loop
\* ------------------------------------------------------------------------
\* ActionExecutor.execute: the outcome string of the action
executor_execute(action, orc, p, data) == execute_action(action, orc, p, data).result

\* ActionExecutor.should_update_snapshot: the content-changing kinds
executor_should_update_snapshot(action) ==
    GetOr(action, "type", "")
      \in { "click", "type", "select", "scroll", "navigate", "enter" }

\* ------------------------------------------------------------------------
\* The environment: planner responses and browser behaviour
\* ------------------------------------------------------------------------
A_click    == ("type" :> "click") @@ ("ref" :> "e1")
A_type     == ("type" :> "type") @@ ("ref" :> "e1") @@ ("text" :> "hello")
A_typeErr  == ("type" :> "type") @@ ("ref" :> "e1") @@ ("text" :> "Error")
A_select   == ("type" :> "select") @@ ("ref" :> "e1") @@ ("value" :> "x")
A_wait     == ("type" :> "wait") @@ ("timeout" :> "2000")
A_waitSel  == ("type" :> "wait") @@ ("selector" :> "#q")
A_enter    == ("type" :> "enter")
A_scroll   == ("type" :> "scroll") @@ ("direction" :> "down") @@ ("amount" :> "300")
A_navigate == ("type" :> "navigate") @@ ("url" :> "https://example.com")
A_extract  == ("type" :> "extract") @@ ("ref" :> "e1")
A_finish   == ("type" :> "finish") @@ ("ref" :> PyNone) @@ ("summary" :> "done")
A_clickBare == ("type" :> "click")
A_hover    == ("type" :> "hover") @@ ("ref" :> "e1")
A_noType   == ("ref" :> "e1")
L_click    == ("click" :> "e1")
L_finish   == ("finish" :> "done")
A_nonDict  == (NonDictKey :> "click")

\* the canonical actions that are well formed and do not finish
WellFormed ==
    { A_click, A_type, A_typeErr, A_select, A_wait, A_waitSel, A_enter,
      A_scroll, A_navigate, A_extract }

\* the value of response.get("action") for the responses explored; NoAction
\* stands for every response without a usable action (not an object, no
\* "action" key, null)
Responses ==
    WellFormed \cup { A_finish, A_clickBare, A_hover, A_noType, L_click,
                      L_finish, A_nonDict, NoAction }

\* responses after which no further action is executed
Terminating == { A_finish, NoAction }

OracleOK ==
    [ sel |-> "ok", txt |-> "ok", ref |-> "ok", ext |-> "ok", gen |-> "ok",
      call |-> "ok", nav |-> "ok", msg |-> "Timeout 10000ms exceeded." ]

\* nothing matches and every wait times out
OracleNotFound ==
    [ sel |-> "none", txt |-> "none", ref |-> "none", ext |-> "none",
      gen |-> "none", call |-> "raise", nav |-> "raise",
      msg |-> "Timeout 10000ms exceeded." ]

\* the elements are found and the interaction raises a browser Error
OracleRaise ==
    [ sel |-> "raise", txt |-> "raise", ref |-> "raise", ext |-> "raise",
      gen |-> "raise", call |-> "raise", nav |-> "raise",
      msg |-> "Error: strict mode violation" ]

LoopOracles == { OracleOK, OracleNotFound, OracleRaise }

\* an environment: the planner's responses, the number of non-nominal
\* choices, whether the planner may end the command at any iteration
SingleEnv == [ responses |-> Responses, faults |-> FaultBudget, late |-> TRUE ]

\* ------------------------------------------------------------------------
\* State
\* ------------------------------------------------------------------------
VARIABLES
    variant,           \* "main": playwright_llm_agent.py, "mod": agent.py
    pc,                \* position of process_command
    cmd,               \* number of the current process_command call
    page,              \* the live page
    snapshot_data,     \* PageSnapshot.snapshot_data
    current_snapshot,  \* local current_snapshot (main) / full_snapshot (mod)
    action,            \* local action
    action_count,      \* local action_count (main) / steps (mod)
    budget,            \* max_actions (main) / argument max_steps (mod)
    action_history,    \* self.action_history
    outcome,           \* the path by which process_command ended
    report,            \* what it printed about the end of the command
    faults,            \* non-nominal environment choices so far
    exec_calls,        \* execute_action / _run_action calls of this command
    planner_requests,  \* planner requests of this command
    sent,              \* the last planner request
    last_response,     \* the action of the last planner response
    last_sampled,      \* the full text sampled by the most recent capture
    exec_post,         \* the last execute_action call reached its capture
    exec_performed,    \* the last executed action performed its interaction
    observed,          \* what the Observing step of this iteration did
    capture_errors,    \* captures of this command that returned the error string
    cap_log,           \* outcome of the last two captures of this command
    cap_by,            \* who made the last capture: "loop" or "exec"
    call               \* the last direct call of capture or execute_action

vars == << variant, pc, cmd, page, snapshot_data, current_snapshot, action,
           action_count, budget, action_history, outcome, report, faults,
           exec_calls, planner_requests, sent, last_response, last_sampled,
           exec_post, exec_performed, observed, capture_errors, cap_log, cap_by,
           call >>

\* the variables describing the captures made so far
capvars == << capture_errors, cap_log, cap_by >>

NoRequest == [ initial |-> TRUE, snapshot |-> << >>, history |-> << >> ]

\* no method has been called on its own yet
NoCall == [ fn |-> "none" ]

Init ==
    /\ variant \in { "main", "mod" }
    /\ pc = "idle"
    /\ cmd = 1
    /\ page \in Pages
    /\ snapshot_data = NoSnapshot
    /\ current_snapshot = << >>
    /\ action = NoAction
    /\ action_count = 0
    /\ budget = max_actions
    /\ action_history = << >>
    /\ outcome = "none"
    /\ report = << >>
    /\ faults = 0
    /\ exec_calls = 0
    /\ planner_requests = 0
    /\ sent = NoRequest
    /\ last_response = NoAction
    /\ last_sampled = << >>
    /\ exec_post = FALSE
    /\ exec_performed = FALSE
    /\ observed = "none"
    /\ capture_errors = 0
    /\ cap_log = << "none", "none" >>
    /\ cap_by = "none"
    /\ call = NoCall

\* n non-nominal choices are taken now
Charge(env, n) ==
    /\ n > 0 => faults + n <= env.faults /\ action_count < FaultWindow
    /\ faults' = faults + n

Cost(b) == IF b THEN 1 ELSE 0

\* a capture by `who` ("loop", "exec") has sampled the text `text`
Captured(who, text) ==
    /\ capture_errors' = capture_errors + Cost(text = ErrorSnapshot)
    /\ cap_log' = << cap_log[2], IF text = ErrorSnapshot THEN "error" ELSE "ok" >>
    /\ cap_by' = who

\* execute_action captured twice (inside navigate(), then after the action)
CapturedTwice(who, text) ==
    /\ capture_errors' = capture_errors + 2 * Cost(text = ErrorSnapshot)
    /\ cap_log' = LET o == IF text = ErrorSnapshot THEN "error" ELSE "ok"
                  IN  << o, o >>
    /\ cap_by' = who

\* a loop that never inspects the captured text
SnapshotFailed_Never(text) == FALSE

\* `"Error:" in current_snapshot`, lines 937 and 997
SnapshotFailed(text) == HasErrorColon(text)

\* a loop without the finish check
IsFinishAction_Never(a) == FALSE

\* action.get('type') == 'finish', line 951 (agent.py line 134)
IsFinishAction(a) == Get(a, "type") = "finish"

\* a history that grows at its head
Record_Prepend(history, a, result) ==
    << [ action |-> a, result |-> result, success |-> ~HasError(result) ] >>
        \o history

\* a loop that records an executed action twice
Record_Twice(history, a, result) ==
    history \o << [ action |-> a, result |-> result, success |-> ~HasError(result) ],
                  [ action |-> a, result |-> result, success |-> ~HasError(result) ] >>

\* lines 964-969: the entry appended for an executed action
Record(history, a, result) ==
    Append(history, [ action |-> a, result |-> result,
                      success |-> ~HasError(result) ])

\* the action performed its browser interaction (a found element was
\* clicked or filled, the awaited call returned)
Performed(a, orc, data) ==
    LET t == Get(a, "type") IN
    CASE t = "click" -> ~NoTarget(a) /\ ClickStrategy(a, orc, data) # 0
      [] t = "type"  -> ~NoTarget(a) /\ TypeStrategy(a, orc) # 0
      [] t = "select" -> ~NoTarget(a) /\ SelectResolution(a, orc) = "ok"
      [] t \in { "enter", "extract", "scroll" } -> orc.call = "ok"
      [] t = "wait"  -> "timeout" \in DOMAIN a
                          \/ ("selector" \in DOMAIN a /\ orc.call = "ok")
      [] t = "navigate" -> Truthy(Get(a, "url")) /\ orc.nav = "ok"
      [] OTHER -> FALSE

\* a loop test that lets the counter reach one past the limit
WithinBudget_Inclusive(count, limit) == count <= limit

\* the budget part of the loop test, line 949 (agent.py line 133)
WithinBudget(count, limit) == count < limit

\* process_command returns (or raises) with this outcome
End(o, rep) ==
    /\ pc' = "done"
    /\ outcome' = o
    /\ report' = rep

\* ------------------------------------------------------------------------
\* process_command, playwright_llm_agent.py lines 929-1011
\* ------------------------------------------------------------------------
\* lines 931-939: clear the history, capture the initial snapshot
BeginMain(env) ==
    /\ pc = "idle" /\ variant = "main"
    /\ \E co \in CaptureOutcomes :
         LET c == capture(snapshot_data, page, co, FALSE, FALSE) IN
         /\ Charge(env, Cost(co # "direct"))
         /\ action_history' = << >>
         /\ snapshot_data' = c.data
         /\ current_snapshot' = c.out
         /\ last_sampled' = Sampled(page, co)
         /\ Captured("loop", Sampled(page, co))
         /\ IF SnapshotFailed(c.out)
            THEN End("init_failed", << "Could not capture initial snapshot" >>)
            ELSE pc' = "plan_initial" /\ UNCHANGED << outcome, report >>
    /\ UNCHANGED << call, variant, cmd, page, action, action_count, budget, exec_calls,
                    planner_requests, sent, last_response, exec_post,
                    exec_performed, observed >>

\* lines 941-947: get_initial_plan and the loop counters
PlanInitialMain(env) ==
    /\ pc = "plan_initial" /\ variant = "main"
    /\ \E resp \in env.responses :
         /\ sent' = [ initial |-> TRUE, snapshot |-> current_snapshot,
                      history |-> << >> ]
         /\ last_response' = resp
         /\ action' = fix_action_format(resp)
    /\ planner_requests' = planner_requests + 1
    /\ action_count' = 0
    /\ budget' = max_actions
    /\ pc' = "loop"
    /\ UNCHANGED << call, variant, cmd, page, snapshot_data, current_snapshot,
                    action_history, outcome, report, faults, exec_calls,
                    last_sampled, exec_post, exec_performed, observed, capvars >>

\* lines 949-969 and 1005-1011: the loop test, the finish check,
\* execute_action and the history entry
StepMain(env) ==
    /\ pc = "loop" /\ variant = "main"
    /\ IF ~(ActionTruthy(action) /\ WithinBudget(action_count, budget))
       THEN /\ IF action_count >= budget
               THEN End("limit", << "Reached maximum action limit" >>)
               ELSE End("no_action", << "Task completed" >>)
            /\ UNCHANGED << page, snapshot_data, action_history, faults,
                            exec_calls, last_sampled, exec_post,
                            exec_performed, observed, capvars >>
       ELSE IF ~IsDict(action)
       \* action.get raises AttributeError, caught at line 1010
       THEN /\ End("caught", << "Error in process_command" >>)
            /\ UNCHANGED << page, snapshot_data, action_history, faults,
                            exec_calls, last_sampled, exec_post,
                            exec_performed, observed, capvars >>
       ELSE IF IsFinishAction(action)
       THEN /\ End("finished", << "Task completed!", "Summary:",
                                  GetOr(action, "summary", "No summary provided") >>)
            /\ UNCHANGED << page, snapshot_data, action_history, faults,
                            exec_calls, last_sampled, exec_post,
                            exec_performed, observed, capvars >>
       ELSE \E orc \in LoopOracles, p \in Pages, co \in CaptureOutcomes :
              LET r  == execute_action(action, orc, p, snapshot_data)
                  c1 == IF r.navcap
                        THEN capture(snapshot_data, p, co, TRUE, FALSE)
                        ELSE [out |-> << >>, data |-> snapshot_data]
                  c2 == IF r.post
                        THEN capture(c1.data, p, co, FALSE, FALSE)
                        ELSE c1
              IN  /\ Charge(env, Cost(orc # OracleOK) + Cost(p # page)
                                   + Cost(co # "direct"))
                  /\ page' = p
                  /\ snapshot_data' = c2.data
                  /\ last_sampled' = IF r.navcap \/ r.post
                                     THEN Sampled(p, co) ELSE last_sampled
                  /\ IF r.navcap /\ r.post THEN CapturedTwice("exec", Sampled(p, co))
                     ELSE IF r.navcap \/ r.post THEN Captured("exec", Sampled(p, co))
                     ELSE UNCHANGED capvars
                  /\ exec_post' = r.post
                  /\ exec_performed' = Performed(action, orc, snapshot_data)
                  /\ action_history' =
                       Record(action_history, action,
                              IF r.post
                              THEN AfterCapture(r.result, Sampled(p, co), FALSE)
                              ELSE r.result)
                  /\ exec_calls' = exec_calls + 1
                  /\ observed' = "pending"
                  /\ pc' = "observe"
                  /\ UNCHANGED << outcome, report >>
    /\ UNCHANGED << call, variant, cmd, current_snapshot, action, action_count, budget,
                    planner_requests, sent, last_response >>

\* lines 971-999: the Observing step
ObserveMain(env) ==
    /\ pc = "observe" /\ variant = "main"
    /\ LET result == action_history[Len(action_history)].result
           recapture == HasError(result) \/ should_update_snapshot(action)
       IN  \E co \in CaptureOutcomes :
             LET c == IF recapture
                      THEN capture(snapshot_data, page, co, TRUE, FALSE)
                      ELSE [out |-> current_snapshot, data |-> snapshot_data]
             IN  /\ recapture \/ co = "direct"
                 /\ Charge(env, Cost(co # "direct"))
                 /\ snapshot_data' = c.data
                 /\ current_snapshot' = c.out
                 /\ last_sampled' = IF recapture THEN Sampled(page, co)
                                    ELSE last_sampled
                 /\ IF recapture THEN Captured("loop", Sampled(page, co))
                    ELSE UNCHANGED capvars
                 /\ observed' = IF recapture THEN "forced" ELSE "reuse"
                 /\ IF SnapshotFailed(c.out)
                    \* break, then line 1008
                    THEN End("capture_failed", << "Task completed" >>)
                    ELSE pc' = "plan_next" /\ UNCHANGED << outcome, report >>
    /\ UNCHANGED << call, variant, cmd, page, action, action_count, budget,
                    action_history, exec_calls, planner_requests, sent,
                    last_response, exec_post, exec_performed >>

\* the planner's answer to a subsequent request: it repeats its action,
\* ends the command, or (a non-nominal choice) asks for something else
NextResponse(env, resp) ==
    IF resp = last_response THEN Charge(env, 0)
    ELSE IF resp \in Terminating
    THEN (env.late \/ action_count < FaultWindow) /\ Charge(env, 0)
    ELSE Charge(env, 1)

\* lines 1001-1003: get_next_action
PlanNextMain(env) ==
    /\ pc = "plan_next" /\ variant = "main"
    /\ \E resp \in env.responses :
         /\ NextResponse(env, resp)
         /\ sent' = [ initial |-> FALSE, snapshot |-> current_snapshot,
                      history |-> action_history ]
         /\ last_response' = resp
         /\ action' = fix_action_format(resp)
    /\ planner_requests' = planner_requests + 1
    /\ action_count' = action_count + 1
    /\ pc' = "loop"
    /\ UNCHANGED << call, variant, cmd, page, snapshot_data, current_snapshot, budget,
                    action_history, outcome, report, exec_calls, last_sampled,
                    exec_post, exec_performed, observed, capvars >>

\* ------------------------------------------------------------------------
\* process_command, agent.py lines 120-157
\* ------------------------------------------------------------------------
\* the max_steps arguments explored
StepArgs == { SmallSteps, default_max_steps }

\* lines 120-124: the initial full snapshot (its text is not inspected and
\* action_history is not reset)
BeginMod(env) ==
    /\ pc = "idle" /\ variant = "mod"
    /\ \E co \in CaptureOutcomes, max_steps \in StepArgs :
         LET c == capture(snapshot_data, page, co, FALSE, FALSE) IN
         /\ Charge(env, Cost(co # "direct"))
         /\ budget' = max_steps
         /\ snapshot_data' = c.data
         /\ current_snapshot' = c.out
         /\ last_sampled' = Sampled(page, co)
         /\ Captured("loop", Sampled(page, co))
    /\ pc' = "plan_initial"
    /\ UNCHANGED << call, variant, cmd, page, action, action_count, action_history,
                    outcome, report, exec_calls, planner_requests, sent,
                    last_response, exec_post, exec_performed, observed >>

\* lines 126-132: the initial _llm_call; the action is taken as received
PlanInitialMod(env) ==
    /\ pc = "plan_initial" /\ variant = "mod"
    /\ \E resp \in env.responses :
         /\ sent' = [ initial |-> TRUE, snapshot |-> current_snapshot,
                      history |-> << >> ]
         /\ last_response' = resp
         /\ action' = resp
    /\ planner_requests' = planner_requests + 1
    /\ action_count' = 0
    /\ pc' = "loop"
    /\ UNCHANGED << call, variant, cmd, page, snapshot_data, current_snapshot, budget,
                    action_history, outcome, report, faults, exec_calls,
                    last_sampled, exec_post, exec_performed, observed, capvars >>

\* lines 133-141 and 160-163: the loop test, the finish check, _run_action
\* and the history entry
StepMod(env) ==
    /\ pc = "loop" /\ variant = "mod"
    /\ IF ~(ActionTruthy(action) /\ WithinBudget(action_count, budget))
       THEN /\ IF ActionTruthy(action)
               THEN End("limit", << >>)
               ELSE End("no_action", << >>)
            /\ UNCHANGED << page, snapshot_data, action_history, faults,
                            exec_calls, last_sampled, exec_post,
                            exec_performed, observed, capvars >>
       ELSE IF ~IsDict(action)
       \* action.get raises AttributeError out of process_command
       THEN /\ End("raised", << >>)
            /\ UNCHANGED << page, snapshot_data, action_history, faults,
                            exec_calls, last_sampled, exec_post,
                            exec_performed, observed, capvars >>
       ELSE IF IsFinishAction(action)
       THEN /\ End("finished", << GetOr(action, "summary", "Done") >>)
            /\ UNCHANGED << page, snapshot_data, action_history, faults,
                            exec_calls, last_sampled, exec_post,
                            exec_performed, observed, capvars >>
       ELSE \E orc \in LoopOracles, p \in Pages, co \in CaptureOutcomes :
              LET isnav == Get(action, "type") = "navigate"
                  \* navigate(): goto, then capture(force_refresh=True)
                  c == IF isnav /\ orc.nav = "ok"
                       THEN capture(snapshot_data, p, co, TRUE, FALSE)
                       ELSE [out |-> << >>, data |-> snapshot_data]
                  result ==
                       IF isnav
                       THEN IF orc.nav = "ok" THEN c.out
                            ELSE << "Error: could not navigate", orc.msg >>
                       ELSE executor_execute(action, orc, p, snapshot_data)
              IN  /\ (isnav /\ orc.nav = "ok") \/ co = "direct"
                  /\ Charge(env, Cost(orc # OracleOK) + Cost(p # page)
                                   + Cost(co # "direct"))
                  /\ page' = p
                  /\ snapshot_data' = c.data
                  /\ last_sampled' = IF isnav /\ orc.nav = "ok"
                                     THEN Sampled(p, co) ELSE last_sampled
                  /\ IF isnav /\ orc.nav = "ok" THEN Captured("exec", Sampled(p, co))
                     ELSE UNCHANGED capvars
                  /\ exec_post' = FALSE
                  /\ exec_performed' = Performed(action, orc, snapshot_data)
                  /\ action_history' = Record(action_history, action, result)
                  /\ exec_calls' = exec_calls + 1
                  /\ observed' = "pending"
                  /\ pc' = "observe"
                  /\ UNCHANGED << outcome, report >>
    /\ UNCHANGED << call, variant, cmd, current_snapshot, action, action_count, budget,
                    planner_requests, sent, last_response >>

\* lines 143-154: the diff capture; the stored full text replaces
\* full_snapshot only when the capture returned a diff block
ObserveMod(env) ==
    /\ pc = "observe" /\ variant = "mod"
    /\ \E co \in CaptureOutcomes :
         LET force == executor_should_update_snapshot(action)
             c == capture(snapshot_data, page, co, force, TRUE)
             is_diff == c.out[1] = "- Page Snapshot (diff)"
         IN  /\ Charge(env, Cost(co # "direct"))
             /\ snapshot_data' = c.data
             /\ current_snapshot' = IF is_diff THEN c.data ELSE current_snapshot
             /\ last_sampled' = Sampled(page, co)
             /\ Captured("loop", Sampled(page, co))
             /\ observed' = IF force THEN "forced" ELSE "unforced"
    /\ pc' = "plan_next"
    /\ UNCHANGED << call, variant, cmd, page, action, action_count, budget,
                    action_history, outcome, report, exec_calls,
                    planner_requests, sent, last_response, exec_post,
                    exec_performed >>

\* lines 156-157 and 107-115: the next _llm_call; formatting the history
\* reads h['action']['type'] of every entry
PlanNextMod(env) ==
    /\ pc = "plan_next" /\ variant = "mod"
    /\ IF \E i \in DOMAIN action_history :
            "type" \notin DOMAIN action_history[i].action
       \* KeyError out of process_command, before the request is sent
       THEN /\ End("raised", << >>)
            /\ UNCHANGED << action, action_count, faults, planner_requests,
                            sent, last_response >>
       ELSE /\ \E resp \in env.responses :
                 /\ NextResponse(env, resp)
                 /\ sent' = [ initial |-> FALSE, snapshot |-> current_snapshot,
                              history |-> action_history ]
                 /\ last_response' = resp
                 /\ action' = resp
            /\ planner_requests' = planner_requests + 1
            /\ action_count' = action_count + 1
            /\ pc' = "loop"
            /\ UNCHANGED << outcome, report >>
    /\ UNCHANGED << call, variant, cmd, page, snapshot_data, current_snapshot, budget,
                    action_history, exec_calls, last_sampled, exec_post,
                    exec_performed, observed, capvars >>

\* ------------------------------------------------------------------------
\* Specification: one command on a fresh agent
\* ------------------------------------------------------------------------
Next ==
    \/ BeginMain(SingleEnv)
    \/ PlanInitialMain(SingleEnv)
    \/ StepMain(SingleEnv)
    \/ ObserveMain(SingleEnv)
    \/ PlanNextMain(SingleEnv)
    \/ BeginMod(SingleEnv)
    \/ PlanInitialMod(SingleEnv)
    \/ StepMod(SingleEnv)
    \/ ObserveMod(SingleEnv)
    \/ PlanNextMod(SingleEnv)

Spec == Init /\ [][Next]_vars

\* ------------------------------------------------------------------------
\* Specification: one command whose browser and planner calls all return
\* ------------------------------------------------------------------------
\* one response of each course the loop can take: executed without and with
\* recapture, navigation, executed and refused, not an object, finish, none
LiveResponses ==
    { A_click, A_wait, A_navigate, A_noType, A_nonDict, A_finish, NoAction }

LiveEnv == [ responses |-> LiveResponses, faults |-> FaultBudget, late |-> TRUE ]

NextLive ==
    \/ BeginMain(LiveEnv)
    \/ PlanInitialMain(LiveEnv)
    \/ StepMain(LiveEnv)
    \/ ObserveMain(LiveEnv)
    \/ PlanNextMain(LiveEnv)
    \/ BeginMod(LiveEnv)
    \/ PlanInitialMod(LiveEnv)
    \/ StepMod(LiveEnv)
    \/ ObserveMod(LiveEnv)
    \/ PlanNextMod(LiveEnv)

\* process_command is a sequential procedure: as long as the call it is
\* waiting for (a browser call, a planner request) returns, it takes its
\* next step
SpecLive == Init /\ [][NextLive]_vars /\ WF_vars(NextLive)

\* ------------------------------------------------------------------------
\* Specification: several commands on the same agent
\* ------------------------------------------------------------------------
MultiResponses == { A_click, A_wait, A_finish, NoAction }

\* nominal browser; the planner ends a command at its first or second answer
\* or never
MultiEnv == [ responses |-> MultiResponses, faults |-> 0, late |-> FALSE ]

\* process_command has returned and the caller calls it again: the locals
\* of the finished call are gone, the agent's fields and the page remain
NextCommand ==
    /\ pc = "done"
    /\ cmd < MaxCommands
    /\ cmd' = cmd + 1
    /\ pc' = "idle"
    /\ current_snapshot' = << >>
    /\ action' = NoAction
    /\ action_count' = 0
    /\ budget' = max_actions
    /\ outcome' = "none"
    /\ report' = << >>
    /\ faults' = 0
    /\ exec_calls' = 0
    /\ planner_requests' = 0
    /\ sent' = NoRequest
    /\ last_response' = NoAction
    /\ exec_post' = FALSE
    /\ exec_performed' = FALSE
    /\ observed' = "none"
    /\ capture_errors' = 0
    /\ cap_log' = << "none", "none" >>
    /\ cap_by' = "none"
    /\ UNCHANGED << call, variant, page, snapshot_data, action_history, last_sampled >>

NextMulti ==
    \/ BeginMain(MultiEnv)
    \/ PlanInitialMain(MultiEnv)
    \/ StepMain(MultiEnv)
    \/ ObserveMain(MultiEnv)
    \/ PlanNextMain(MultiEnv)
    \/ BeginMod(MultiEnv)
    \/ PlanInitialMod(MultiEnv)
    \/ StepMod(MultiEnv)
    \/ ObserveMod(MultiEnv)
    \/ PlanNextMod(MultiEnv)
    \/ NextCommand

SpecMulti == Init /\ [][NextMulti]_vars

\* ------------------------------------------------------------------------
\* Specification: capture and execute_action called on their own
\* ------------------------------------------------------------------------
A_clickAll    == ("type" :> "click") @@ ("selector" :> "#go") @@ ("text" :> "Search")
                   @@ ("ref" :> "e2")
A_clickSelRef == ("type" :> "click") @@ ("selector" :> "#go") @@ ("ref" :> "e1")
A_clickText   == ("type" :> "click") @@ ("text" :> "Next")
A_typeBoth    == ("type" :> "type") @@ ("selector" :> "#q") @@ ("ref" :> "e1")
                   @@ ("text" :> "hello")
A_typeBare    == ("type" :> "type") @@ ("text" :> "hello")
A_selectBoth  == ("type" :> "select") @@ ("selector" :> "#lang") @@ ("ref" :> "e1")
                   @@ ("value" :> "x")
A_selectBare  == ("type" :> "select") @@ ("value" :> "x")
A_waitBare    == ("type" :> "wait")

\* the actions execute_action is called with
ExecActions ==
    (Responses \ { L_click, L_finish })
      \cup { A_clickAll, A_clickSelRef, A_clickText, A_typeBoth, A_typeBare,
             A_selectBoth, A_selectBare, A_waitBare }

\* every combination of the first three strategies, the last two finding
\* their element or not
StrategyOracles ==
    { [ OracleOK EXCEPT !.sel = a, !.txt = b, !.ref = c, !.ext = d, !.gen = e ] :
        a \in StrategyOutcomes, b \in StrategyOutcomes, c \in StrategyOutcomes,
        d \in { "none", "ok" }, e \in { "none", "ok" } }

\* the browser behaviours explored for an action
ExecOraclesFor(a) ==
    IF IsDict(a) /\ Get(a, "type") \in { "click", "type", "select" }
    THEN StrategyOracles \cup LoopOracles
    ELSE LoopOracles

loopvars == << variant, pc, cmd, current_snapshot, action, action_count, budget,
               action_history, outcome, report, faults, exec_calls,
               planner_requests, sent, last_response, last_sampled, exec_post,
               exec_performed, observed, capture_errors, cap_log, cap_by >>

\* the agent is at rest on a freshly stored snapshot or on none: nothing
\* has been called yet, or the last call was a plain capture
AtRest ==
    \/ call.fn \in { "none", "page" }
    \/ call.fn = "capture" /\ call.co = "direct" /\ ~call.diff_only
         /\ ~call.force_refresh /\ ~call.prev.made

\* the page is changed from outside
PageChanges ==
    /\ pc = "idle" /\ call.fn \in { "none", "capture" }
    /\ \E p \in Pages \ { page } : page' = p
    /\ call' = [ fn |-> "page" ]
    /\ UNCHANGED << snapshot_data, loopvars >>

\* the capture made just before on the same DOM, if any
PreviousCapture ==
    IF call.fn = "capture"
    THEN [ made |-> TRUE, co |-> call.co, diff_only |-> call.diff_only ]
    ELSE [ made |-> FALSE, co |-> "direct", diff_only |-> FALSE ]

\* snapshot.capture(force_refresh, diff_only)
CallCapture ==
    /\ pc = "idle" /\ call.fn # "execute_action"
    /\ \E b \in CaptureBrowser, force_refresh \in BOOLEAN, diff_only \in BOOLEAN :
         LET co == CaptureOutcome(b)
             c  == capture(snapshot_data, page, co, force_refresh, diff_only)
         IN  /\ snapshot_data' = c.data
             /\ call' = [ fn |-> "capture", b |-> b, co |-> co,
                          force_refresh |-> force_refresh, diff_only |-> diff_only,
                          before |-> snapshot_data,
                          prev |-> PreviousCapture,
                          calls |-> CaptureCallsMade(b),
                          escaped |-> capture_escapes(b),
                          out |-> IF capture_escapes(b) THEN << >> ELSE c.out ]
    /\ UNCHANGED << page, loopvars >>

\* agent.execute_action(action) of playwright_llm_agent.py
CallExecuteAction ==
    /\ pc = "idle" /\ variant = "main" /\ AtRest
    /\ \E a \in ExecActions, stable \in { "ok", "raise" }, co \in CaptureOutcomes :
       \E orc \in ExecOraclesFor(a) :
         /\ stable = "raise" => co = "direct"
         /\ LET r  == execute_action(a, orc, page, snapshot_data)
                c1 == IF r.navcap
                      THEN capture(snapshot_data, page, co, TRUE, FALSE)
                      ELSE [out |-> << >>, data |-> snapshot_data]
                c2 == IF r.post
                      THEN capture(c1.data, page, co, FALSE, FALSE)
                      ELSE c1
                escaped == execute_escapes(a, orc, stable, snapshot_data)
            IN  /\ snapshot_data' = IF escaped THEN snapshot_data ELSE c2.data
                /\ call' = [ fn |-> "execute_action", action |-> a, orc |-> orc,
                             stable |-> stable, co |-> co,
                             before |-> snapshot_data,
                             calls |-> BrowserCalls(a, orc, stable, snapshot_data),
                             captured |-> ~escaped /\ (r.navcap \/ r.post),
                             escaped |-> escaped,
                             result |-> IF escaped THEN << >>
                                        ELSE IF r.post
                                        THEN AfterCapture(r.result, c2.out, FALSE)
                                        ELSE r.result ]
    /\ UNCHANGED << page, loopvars >>

NextCalls ==
    \/ PageChanges
    \/ CallCapture
    \/ CallExecuteAction

SpecCalls == Init /\ [][NextCalls]_vars

\* ------------------------------------------------------------------------
\* Specification: the action of a planner response reaches the loop
\* ------------------------------------------------------------------------
\* the key under which the flattened action holds action[kind][param]
Nested(kind, param) == kind \o "." \o param

\* the legacy shape {kind: {param: value, ...}} (line 433)
Legacy(kind, params) ==
    (kind :> DictMark)
      @@ [ k \in { Nested(kind, x) : x \in DOMAIN params } |->
             params[CHOOSE x \in DOMAIN params : Nested(kind, x) = k] ]

LegacyRefs == { "e1", "e3", "e7" }

\* the legacy shapes a planner may answer with
LegacyActions ==
    { ("click" :> r) : r \in LegacyRefs }
      \cup { Legacy("click", [ref |-> r]) : r \in LegacyRefs }
      \cup { Legacy("type", [ref |-> r, text |-> "hello"]) : r \in LegacyRefs }
      \cup { Legacy("select", [ref |-> r, value |-> v]) :
               r \in LegacyRefs, v \in { "x", "y" } }
      \cup { Legacy("extract", [ref |-> r]) : r \in LegacyRefs }
      \cup { Legacy("enter", [ref |-> r]) : r \in LegacyRefs }
      \cup { Legacy("wait", [timeout |-> "2000"]),
             Legacy("wait", [selector |-> "#q"]),
             Legacy("scroll", [direction |-> "down", amount |-> "300"]),
             Legacy("navigate", [url |-> "https://example.com"]),
             Legacy("finish", [summary |-> "done"]),
             ("finish" :> "done") }

\* the value of response.get("action") for the responses explored
PlannerActions == LegacyActions \cup Responses

\* get_initial_plan / get_next_action, lines 489-513: the action of the
\* response goes through _fix_action_format
ReceiveMain ==
    /\ pc = "idle" /\ variant = "main" /\ call.fn = "none"
    /\ \E a \in PlannerActions :
         call' = [ fn |-> "receive", action |-> a, out |-> fix_action_format(a) ]
    /\ UNCHANGED << page, snapshot_data, loopvars >>

\* agent.py lines 128 and 156: the action of the response is taken as it is
ReceiveMod ==
    /\ pc = "idle" /\ variant = "mod" /\ call.fn = "none"
    /\ \E a \in PlannerActions :
         call' = [ fn |-> "receive", action |-> a, out |-> a ]
    /\ UNCHANGED << page, snapshot_data, loopvars >>

NextReceive ==
    \/ ReceiveMain
    \/ ReceiveMod

SpecReceive == Init /\ [][NextReceive]_vars

\* ------------------------------------------------------------------------
\* Claims
\* ------------------------------------------------------------------------
\* the action executed last (the action of the newest history entry)
LastEntry == action_history[Len(action_history)]

\* every planner response of the command so far carried a well-formed
\* action that is not finish (the executed ones are in the history)
AllWellFormed ==
    /\ planner_requests >= 1
    /\ last_response \in WellFormed
    /\ \A i \in DOMAIN action_history : action_history[i].action \in WellFormed

\* C1: when every planner response carries a well-formed non-finish action
\* and no capture returns the error string, execute_action is invoked
\* exactly as many times as the step budget and the loop then stops: the
\* count never exceeds the budget and equals it when the command has ended.
C1_ExactlyBudgetExecutions ==
    (capture_errors = 0 /\ AllWellFormed)
        => /\ exec_calls <= budget
           /\ pc = "done" => exec_calls = budget

\* C1 with the additional premise that no captured text holds "Error:"
\* (the case of claim C34 set aside)
C1_SettingAsideErrorText ==
    (capture_errors = 0 /\ AllWellFormed /\ ~HasErrorColon(last_sampled)
       /\ ~HasErrorColon(current_snapshot))
        => /\ exec_calls <= budget
           /\ pc = "done" => exec_calls = budget

\* C2: an action whose type is finish is never passed to execute_action and
\* never produces a HistoryEntry; when the very first planning response is a
\* finish action the command ends with zero execute_action invocations.
C2_FinishNeverExecuted ==
    /\ \A i \in DOMAIN action_history :
           Get(action_history[i].action, "type") # "finish"
    /\ (planner_requests = 1 /\ IsDict(action) /\ Get(action, "type") = "finish")
           => exec_calls = 0
    /\ (pc = "done" /\ planner_requests = 1 /\ IsDict(action)
          /\ Get(action, "type") = "finish")
           => outcome = "finished"

\* C2 witness: the first response was finish and the command has ended
\* without any execution
C2_Witness ==
    /\ pc = "done" /\ outcome = "finished"
    /\ planner_requests = 1 /\ last_response = A_finish
    /\ exec_calls = 0 /\ action_history = << >>

\* C3: whenever a planner response carries a finish action, for every
\* planning request of the command, including the one issued after the last
\* budgeted action, process_command ends in Finished, not in Aborted.
C3_FinishAlwaysFinishes ==
    (pc = "done" /\ planner_requests >= 1 /\ IsDict(last_response)
       /\ Get(last_response, "type") = "finish")
        => outcome = "finished"

\* C3 apart from the request issued after the last budgeted action
C3_FinishBeforeBudget ==
    (pc = "done" /\ planner_requests >= 1 /\ IsDict(last_response)
       /\ Get(last_response, "type") = "finish" /\ action_count < budget)
        => outcome = "finished"

\* the command was stopped for a snapshot capture
StoppedForCapture == outcome \in { "init_failed", "capture_failed" }

C5_HistoryAppendOnly ==
    [][ (variant = "main" /\ pc # "idle") =>
          /\ IF exec_calls' = exec_calls + 1
             THEN /\ Len(action_history') = Len(action_history) + 1
                  /\ SubSeq(action_history', 1, Len(action_history)) = action_history
                  /\ action_history'[Len(action_history')].action = action
             ELSE action_history' = action_history
          /\ Len(action_history') = exec_calls'
          /\ (planner_requests' = planner_requests + 1 /\ ~sent'.initial)
                => /\ sent'.history = action_history
                   /\ Len(sent'.history) = exec_calls
      ]_vars

\* C5 witness: two different entries have been appended in turn and the
\* whole list has been sent with the last planning request
C5_Witness ==
    /\ variant = "main" /\ pc = "loop" /\ ~sent.initial
    /\ Len(action_history) = 2 /\ exec_calls = 2
    /\ action_history[1] # action_history[2]
    /\ sent.history = action_history

\* C6: the history is cleared at the start of each command, in both
\* variants: the history sent with the first subsequent planning request of a
\* command holds only the entry of the one action executed in that command.
C6_HistoryClearedPerCommand ==
    (~sent.initial /\ planner_requests = 2) => Len(sent.history) = 1

\* C6 for playwright_llm_agent.py alone, whose process_command resets the list
C6_MainClearsHistory ==
    (variant = "main" /\ pc = "loop" /\ ~sent.initial)
        => Len(sent.history) = exec_calls

\* C7: a click, type, select, wait or enter execution that did not perform
\* its interaction (no strategy resolved an element, or the browser call
\* timed out or raised) is recorded with success = false.
C7_FailedInteractionRecordedFailed ==
    (variant = "main" /\ pc = "observe" /\ ~exec_performed
       /\ Get(action, "type") \in { "click", "type", "select", "wait", "enter" })
        => ~LastEntry.success

\* C7 for click and type, whose failures are reported with an "Error" text
C7_FailedClickTypeRecordedFailed ==
    (variant = "main" /\ pc = "observe" /\ ~exec_performed
       /\ Get(action, "type") \in { "click", "type" })
        => ~LastEntry.success

\* C8: when execute_action has returned, whatever its outcome, it has
\* performed a fresh snapshot capture.
C8_CaptureAfterEveryExecution ==
    (variant = "main" /\ pc = "observe") => exec_post

\* C9: at every subsequent planning request the snapshot text sent is the
\* text of the most recent capture of the page and the history sent is the
\* full accumulated list, after every action kind and in both variants.
C9_RequestCarriesLatestCapture ==
    (pc = "loop" /\ ~sent.initial)
        => /\ sent.snapshot = last_sampled
           /\ sent.history = action_history

\* C9 as far as the history goes
C9_RequestCarriesHistory ==
    (pc = "loop" /\ ~sent.initial) => sent.history = action_history

\* the Observing step of the last executed action is over
ObservingDone == observed \in { "forced", "reuse", "unforced" }

\* C10 as claimed: in the Observing step a wait action never triggers a
\* forced full recapture by the loop, and a click action always does.
C10_WaitNeverClickAlways ==
    ObservingDone =>
        /\ Get(LastEntry.action, "type") = "wait" => observed # "forced"
        /\ Get(LastEntry.action, "type") = "click" => observed = "forced"

\* C10 amended: playwright_llm_agent.py recaptures after every outcome that
\* holds "Error", so a wait whose outcome holds "Error" (a wait for a
\* selector that timed out, a wait with neither timeout nor selector) is
\* followed by a forced recapture; a wait with any other outcome never is,
\* and a click always is. agent.py passes force_refresh by the action kind
\* alone: never for a wait, always for a click.
C10_WaitWithoutErrorNeverClickAlways ==
    ObservingDone =>
        /\ (Get(LastEntry.action, "type") = "wait"
              /\ (variant = "mod" \/ ~HasError(LastEntry.result)))
               => observed # "forced"
        /\ (Get(LastEntry.action, "type") = "wait"
              /\ variant = "main" /\ HasError(LastEntry.result))
               => observed = "forced"
        /\ Get(LastEntry.action, "type") = "click" => observed = "forced"

\* C10 witness: a wait went through and the loop kept its snapshot
C10_Witness ==
    /\ variant = "main" /\ pc = "plan_next" /\ observed = "reuse"
    /\ LastEntry.action = A_wait /\ LastEntry.success

\* a successful click was followed by the forced recapture
C10_ClickWitness ==
    /\ variant = "main" /\ pc = "plan_next" /\ observed = "forced"
    /\ LastEntry.action = A_click /\ LastEntry.success

\* C11: in playwright_llm_agent.py, whenever the outcome of an executed
\* action holds an error (or the action did not perform its interaction),
\* the loop makes a full recapture before the next planning request,
\* whatever the type of the action, and that request carries the recaptured
\* text.
C11_ErrorForcesRecapture ==
    (variant = "main" /\ ObservingDone
       /\ (HasError(LastEntry.result) \/ ~exec_performed))
        => /\ observed = "forced"
           /\ cap_by = "loop"
           /\ (pc = "loop" /\ ~sent.initial) => sent.snapshot = last_sampled

\* C11 witness: a wait for a selector timed out and the loop recaptured
\* before asking the planner again
C11_Witness ==
    /\ variant = "main" /\ pc = "loop" /\ ~sent.initial
    /\ LastEntry.action = A_waitSel /\ HasError(LastEntry.result)
    /\ observed = "forced" /\ sent.snapshot = last_sampled

\* execute_action has been called on its own and has returned
Executed == call.fn = "execute_action" /\ ~call.escaped

\* the place of a strategy in the order of the click branch
Rank(by) ==
    CASE by = "selector" -> 1 [] by = "text" -> 2 [] by = "ref" -> 3
      [] by = "extracted" -> 4 [] by = "generic" -> 5 [] OTHER -> 0

\* the calls of the resolution strategies among the browser calls
Resolving(calls) == { i \in DOMAIN calls : calls[i].op \in { "count", "click", "fill" } }

\* C12: for a click action the strategies are attempted in the fixed order
\* selector, exact text, ref attribute, text re-derived from the stored
\* snapshot line, generic element; a strategy is attempted only while no
\* earlier one has succeeded; after the first successful click no further
\* browser call of the resolution is made (at most one successful click).
C12_ClickStrategiesInOrder ==
    (Executed /\ Get(call.action, "type") = "click") =>
        LET calls == call.calls
            hits  == { i \in Resolving(calls) :
                         calls[i].op = "click" /\ calls[i].res = "ok" }
        IN  /\ \A i \in Resolving(calls), j \in Resolving(calls) :
                  i < j => /\ Rank(calls[i].by) <= Rank(calls[j].by)
                           /\ i \notin hits
            /\ \A i \in Resolving(calls) :
                  /\ Rank(calls[i].by) # 0
                  /\ calls[i].op = "click" =>
                        /\ i > 1
                        /\ calls[i - 1] = BrowserCall("count", calls[i].by, "found")
            /\ Cardinality(hits) <= 1
            /\ hits # {} <=> ~HasError(call.result)
            /\ \A i \in hits :
                  Rank(calls[i].by) = ClickStrategy(call.action, call.orc, call.before)

\* C12 witness: the selector matched nothing, the click by text raised, the
\* click by ref went through and ended the resolution
C12_Witness ==
    /\ Executed /\ call.action = A_clickAll
    /\ call.calls = << BrowserCall("wait_for_load_state", "page", "ok"),
                       BrowserCall("count", "selector", "zero"),
                       BrowserCall("count", "text", "found"),
                       BrowserCall("click", "text", "raise"),
                       BrowserCall("count", "ref", "found"),
                       BrowserCall("click", "ref", "ok") >>
    /\ ~HasError(call.result)

\* the strategy that follows the selector for this action
AfterSelector(a) ==
    IF Get(a, "type") = "click" /\ Truthy(Get(a, "text")) THEN "text" ELSE "ref"

\* the action carries a selector and a second way to its target
SelectorAndMore(a) ==
    /\ Truthy(Get(a, "selector"))
    /\ \/ Truthy(Get(a, "ref"))
       \/ Get(a, "type") = "click" /\ Truthy(Get(a, "text"))

\* C13: for a click, type or select action that carries a selector and a
\* text/ref, when the selector matches no element the resolution goes on to
\* the next strategy (text or ref) instead of failing outright.
C13_SelectorMissFallsThrough ==
    (Executed /\ Get(call.action, "type") \in { "click", "type", "select" }
       /\ SelectorAndMore(call.action) /\ call.orc.sel = "none")
        => \E i \in DOMAIN call.calls : call.calls[i].by = AfterSelector(call.action)

\* C13 for click and type, whose strategies are tried one after the other
C13_ClickTypeFallThrough ==
    (Executed /\ Get(call.action, "type") \in { "click", "type" }
       /\ SelectorAndMore(call.action) /\ call.orc.sel = "none")
        => \E i \in DOMAIN call.calls : call.calls[i].by = AfterSelector(call.action)

\* the action carries no ref, no selector and, for a click, no text
Untargeted(a) ==
    /\ ~Truthy(Get(a, "ref")) /\ ~Truthy(Get(a, "selector"))
    /\ Get(a, "type") = "click" => ~Truthy(Get(a, "text"))

\* C14: a click, type or select action with no identifiable target is
\* rejected with an error outcome before any element query, click, fill or
\* select_option call is issued to the browser.
C14_UntargetedRejected ==
    (Executed /\ Get(call.action, "type") \in { "click", "type", "select" }
       /\ Untargeted(call.action))
        => /\ HasError(call.result)
           /\ \A i \in DOMAIN call.calls : call.calls[i].op = "wait_for_load_state"

\* C14 witness: a click without target was rejected although the page held
\* a button the generic strategy would have clicked
C14_Witness ==
    /\ Executed /\ call.action = A_clickBare /\ call.orc.gen = "ok"
    /\ call.result = << "Error: No ref, text, or selector specified for click action" >>
    /\ Len(call.calls) = 1

\* the kinds execute_action has a branch for
RecognizedTypes ==
    { "click", "type", "select", "wait", "extract", "scroll", "enter",
      "navigate", "finish" }

\* C15: execute_action given an action whose type is missing or not a
\* recognized kind returns an error outcome without any call to the browser
\* driver: no readiness wait, no element query, no snapshot capture.
C15_BadTypeTouchesNothing ==
    (Executed /\ IsDict(call.action) /\ ActionTruthy(call.action)
       /\ Get(call.action, "type") \notin RecognizedTypes)
        => /\ HasError(call.result)
           /\ call.calls = << >>
           /\ ~call.captured

\* C15 for an action without type, which is turned down at line 608
C15_MissingTypeTouchesNothing ==
    (Executed /\ IsDict(call.action) /\ ActionTruthy(call.action)
       /\ ~Truthy(Get(call.action, "type")))
        => /\ HasError(call.result)
           /\ call.calls = << >>
           /\ ~call.captured

\* C16: execute_action never propagates an exception: for every action the
\* loop can pass to it (an object) and whatever browser call raises, the
\* call returns an outcome string.
C16_ExecuteNeverRaises ==
    (call.fn = "execute_action" /\ IsDict(call.action))
        => /\ ~call.escaped
           /\ call.result # << >>

\* the loop hands execute_action objects only: a response that is not an
\* object stops at the finish check of line 951
C16_LoopPassesObjects ==
    (variant = "main" /\ pc = "observe") => IsDict(action)

\* C16 witness: the readiness wait and the awaited selector both raised and
\* the call returned the formatted error
C16_Witness ==
    /\ call.fn = "execute_action" /\ call.action = A_waitSel
    /\ call.stable = "raise" /\ call.orc.call = "raise"
    /\ ~call.escaped
    /\ call.result = << "Error executing", "wait", call.orc.msg >>

\* what the post-action capture of the last call could have returned
PostCaptureTexts ==
    { capture(call.before, page, co, FALSE, FALSE).out : co \in CaptureOutcomes }

\* C17: the value returned by execute_action is determined by the action's
\* own outcome alone: for the same action and the same interaction outcome
\* it is the same whether the post-action capture succeeds, returns the
\* error string or raises.
C17_ResultIndependentOfCapture ==
    (Executed /\ IsDict(call.action)) =>
        LET r == execute_action(call.action, call.orc, page, call.before)
        IN  /\ call.result = r.result
            /\ r.post =>
                 \A text \in PostCaptureTexts, raised \in BOOLEAN :
                     AfterCapture(r.result, text, raised) = call.result

\* C17 witness: the click went through, the capture after it returned the
\* error string, and the call reported the click
C17_Witness ==
    /\ Executed /\ call.action = A_click /\ call.captured
    /\ call.co = "fb_fail"
    /\ call.result = << "Successfully clicked element", "e1", "using aria-ref (force)" >>

\* a direct call of capture has returned (or an exception left it)
CaptureCalled == call.fn = "capture"

\* C18: PageSnapshot.capture never raises to its caller: whichever browser
\* call fails (page.url, the readiness wait, the script evaluation, the
\* title or body text of the fallback), it returns a string.
C18_CaptureNeverRaises ==
    CaptureCalled =>
        /\ ~call.escaped
        /\ call.out # << >>
        /\ CaptureRaised(call.b) # {} =>
             \/ call.out = ErrorSnapshot
             \/ call.out = fallback_snapshot(page, "empty")
             \/ call.out = compute_diff(call.before, fallback_snapshot(page, "empty"))
             \/ call.out = compute_diff(call.before, ErrorSnapshot)

\* C18 witness: page.url raised and capture returned the error string
C18_Witness ==
    /\ CaptureCalled /\ call.b.url = "raise" /\ call.calls = << "url" >>
    /\ ~call.escaped /\ call.out = ErrorSnapshot

\* C19: when the readiness wait inside capture fails, capture still samples
\* the page (evaluates the serialisation script) and returns a snapshot or
\* the fallback snapshot, not the error string.
C19_ReadinessFailureNonFatal ==
    (CaptureCalled /\ call.b.url = "ok" /\ call.b.ready = "raise") =>
        /\ \E i \in DOMAIN call.calls : call.calls[i] = "eval"
        /\ call.out # ErrorSnapshot

\* side check for C19: what the code does instead: the wait is the last
\* browser call of the capture and the error string comes back
C19_ReadinessFailureIsFatal ==
    (CaptureCalled /\ call.b.url = "ok" /\ call.b.ready = "raise") =>
        /\ call.calls = << "url", "ready" >>
        /\ call.out = ErrorSnapshot
        /\ snapshot_data = call.before

\* the serialisation of a direct capture was attempted and threw or gave
\* nothing
SerializationFailed ==
    /\ CaptureCalled
    /\ call.b.url = "ok" /\ call.b.ready = "ok"
    /\ call.b.eval \in { "empty", "raise" }

\* the fallback of that capture failed too
FallbackFailed == call.b.title = "raise" \/ call.b.body = "raise"

\* the fallback snapshot of the current page: one generic ref=e1 line
\* holding the truncated body text
FallbackText ==
    << "- Page Snapshot", "~~~yaml", FallbackLine(page), "~~~" >>

\* C20: when the DOM serialisation inside capture throws or yields nothing,
\* capture returns the fallback snapshot (as a diff against the stored
\* snapshot when a diff was asked for and one is stored); the explicit error
\* string is returned only when the fallback itself also failed, and the
\* stored snapshot is left as it was.
C20_SerializationFailureFallsBack ==
    SerializationFailed =>
        LET diffed   == call.diff_only /\ call.before # NoSnapshot
            fallback == IF FallbackFailed THEN ErrorSnapshot ELSE FallbackText
        IN  /\ ~call.escaped
            /\ call.out = IF diffed THEN compute_diff(call.before, fallback)
                          ELSE fallback
            /\ (~diffed /\ ~FallbackFailed) => call.out = FallbackText
            /\ call.out = ErrorSnapshot => FallbackFailed
            /\ snapshot_data = call.before

\* C20 witness: the serialisation raised, the fallback calls went through,
\* and capture returned the single generic ref=e1 snapshot
C20_Witness ==
    /\ SerializationFailed /\ call.b.eval = "raise" /\ ~FallbackFailed
    /\ call.calls = << "url", "ready", "eval", "title", "body" >>
    /\ ~call.diff_only
    /\ call.out = FallbackText

\* C20, second case: the fallback failed as well and the error string came
\* back
C20_WitnessError ==
    /\ SerializationFailed /\ FallbackFailed /\ ~call.diff_only
    /\ call.out = ErrorSnapshot

\* two diff captures in a row on the same DOM, both served by the same
\* path (the direct serialisation, or the fallback) without a failing call
TwoDiffCaptures ==
    /\ CaptureCalled /\ call.diff_only
    /\ call.prev.made /\ call.prev.diff_only
    /\ call.prev.co = call.co /\ call.co \in { "direct", "empty" }

\* C21: calling capture twice with diff_only=true on a DOM that does not
\* change between the two calls makes the second call return the "no
\* structural changes" marker, whichever capture path (direct serialisation
\* or fallback) produced the snapshots.
C21_DiffIdempotent ==
    TwoDiffCaptures => call.out = NoChangeMarker

\* C21 on the direct path, where each capture stores what it sampled
C21_DirectDiffIdempotent ==
    (TwoDiffCaptures /\ call.co = "direct") => call.out = NoChangeMarker

\* C22: after every capture that returns page content (full text, diff or
\* no-change marker) rather than the error string, the stored last full
\* snapshot equals the formatted full text sampled by that capture,
\* replacing the previous one.
C22_CaptureStoresSampledText ==
    (CaptureCalled /\ call.co \in { "direct", "empty" }) =>
        /\ call.out # ErrorSnapshot
        /\ snapshot_data = Sampled(page, call.co)

\* C22 on the direct path: _update_cache stores the formatted text
C22_DirectCaptureStores ==
    (CaptureCalled /\ call.co = "direct") =>
        snapshot_data = format_snapshot(DirectLines(page))

\* what every other path does: the stored snapshot stays as it was
C22_OtherPathsKeepStored ==
    (CaptureCalled /\ call.co # "direct") => snapshot_data = call.before

\* the loop has received the action of a planner response
Received == call.fn = "receive"

\* C23: _fix_action_format turns {"click": r} into {"type": "click",
\* "ref": r} for every ref r, and {"select": {"ref": r, "value": v}} into
\* {"type": "select", "ref": r, "value": v} for every ref r and value v.
C23_LegacyClickSelectNormalized ==
    (Received /\ variant = "main") =>
        /\ \A r \in LegacyRefs :
             call.action = ("click" :> r)
                => call.out = ("type" :> "click") @@ ("ref" :> r)
        /\ \A r \in LegacyRefs, v \in { "x", "y" } :
             call.action = Legacy("select", [ref |-> r, value |-> v])
                => call.out = ("type" :> "select") @@ ("ref" :> r) @@ ("value" :> v)

\* C23 witness: {"select": {"ref": "e3", "value": "x"}} has been normalised
C23_Witness ==
    /\ Received /\ variant = "main"
    /\ call.action = ("select" :> DictMark) @@ ("select.ref" :> "e3")
                       @@ ("select.value" :> "x")
    /\ call.out = ("type" :> "select") @@ ("ref" :> "e3") @@ ("value" :> "x")

\* {"click": "e7"} has been normalised
C23_ClickWitness ==
    /\ Received /\ variant = "main"
    /\ call.action = ("click" :> "e7")
    /\ call.out = ("type" :> "click") @@ ("ref" :> "e7")

\* the action kinds of the planner interface
ActionKinds ==
    { "click", "type", "select", "wait", "scroll", "enter", "navigate", "finish" }

ParamNames ==
    { "ref", "text", "selector", "value", "url", "timeout", "direction",
      "amount", "summary" }

\* a legacy shape keyed by one of the action kinds
IsLegacyShape(a) == a \in LegacyActions /\ \E k \in ActionKinds : k \in DOMAIN a

\* the kind a legacy shape is keyed by
LegacyKind(a) == CHOOSE k \in ActionKinds : k \in DOMAIN a

\* out is the canonical action of the kind of the legacy shape a and carries
\* its parameters
CanonicalOf(a, out) ==
    LET k == LegacyKind(a) IN
    /\ Get(out, "type") = k
    /\ IF a[k] = DictMark
       THEN \A x \in ParamNames :
              Nested(k, x) \in DOMAIN a => Get(out, x) = a[Nested(k, x)]
       ELSE Get(out, IF k = "finish" THEN "summary" ELSE "ref") = a[k]

\* C24: for every action kind (click, type, select, wait, scroll, enter,
\* navigate, finish) a planner action in the legacy shape keyed by the kind
\* name is normalised to the canonical action of that kind carrying the same
\* parameters before the loop's finish check or execute sees it, in both
\* loop variants.
C24_LegacyShapesNormalized ==
    (Received /\ IsLegacyShape(call.action))
        => CanonicalOf(call.action, call.out)

\* C24 for the kinds _fix_action_format has a reachable branch for, in
\* playwright_llm_agent.py
C24_MainNormalizesFiveKinds ==
    (Received /\ variant = "main" /\ IsLegacyShape(call.action)
       /\ LegacyKind(call.action) \in { "click", "select", "wait", "scroll", "finish" })
        => CanonicalOf(call.action, call.out)

\* every other legacy shape reaches the loop as the planner sent it
C24_OthersAsReceived ==
    (Received /\ IsLegacyShape(call.action)
       /\ (variant = "mod"
             \/ LegacyKind(call.action) \in { "type", "enter", "navigate" }))
        => call.out = call.action

\* the planner of the end-to-end scenario: type into e1, press Enter, finish
Scenario == << A_type, A_enter, A_finish >>

\* playwright_llm_agent.py runs the scenario on the page with the input e1:
\* the planner has answered as the scenario says so far and every browser
\* call has succeeded (the one non-nominal choice of the run is the planner
\* going from its first action to its second)
OnScenario ==
    /\ variant = "main" /\ page = "pA"
    /\ planner_requests \in 1..3
    /\ last_response = Scenario[planner_requests]
    /\ \A i \in DOMAIN action_history :
          i <= 3 /\ action_history[i].action = Scenario[i]
    /\ faults = Cost(planner_requests >= 2)
    /\ capture_errors = 0

\* C25: with a snapshot exposing one input with ref e1, a planner that
\* returns type(ref e1, text hello), then enter, then finish(summary done),
\* and every browser call succeeding, process_command ends in Finished with
\* exactly 2 history entries, both marked successful, after exactly 2
\* execute_action invocations and 3 planner requests.
C25_TypeEnterFinish ==
    OnScenario =>
        /\ exec_calls <= 2
        /\ Len(action_history) = exec_calls
        /\ \A i \in DOMAIN action_history : action_history[i].success
        /\ pc = "done" =>
             /\ outcome = "finished"
             /\ report = << "Task completed!", "Summary:", "done" >>
             /\ Len(action_history) = 2
             /\ exec_calls = 2
             /\ planner_requests = 3

\* C25 witness: the scenario has run to its end
C25_Witness ==
    /\ OnScenario /\ pc = "done" /\ outcome = "finished"
    /\ planner_requests = 3 /\ exec_calls = 2
    /\ action_history =
         << [ action |-> A_type, success |-> TRUE,
              result |-> << "Successfully typed", "hello", "into element", "e1",
                            "using aria-ref" >> ],
            [ action |-> A_enter, success |-> TRUE,
              result |-> << "Pressed Enter key" >> ] >>

\* the response carries no usable action: it is not an object, has no
\* action, or its action is not an object
NoUsableAction(resp) == ~ActionTruthy(resp) \/ ~IsDict(resp)

\* the response is malformed: no usable action, or an action with no
\* recognized type after normalisation
Malformed(resp) ==
    \/ NoUsableAction(resp)
    \/ Get(fix_action_format(resp), "type") \notin RecognizedTypes

\* C26: when a planner response is malformed (not a JSON object, no action,
\* or an action of invalid shape with no recognized type after
\* normalisation), process_command aborts the current command: no
\* execute_action call, no history entry and no further planner request
\* follow that response.
C26_MalformedResponseAborts ==
    (variant = "main" /\ planner_requests >= 1 /\ Malformed(last_response))
        => /\ pc \in { "loop", "done" }
           /\ Len(action_history) < planner_requests

\* C26 for a response without usable action: the loop is not entered, or
\* ends at its finish check
C26_NoActionAborts ==
    (variant = "main" /\ planner_requests >= 1 /\ NoUsableAction(last_response))
        => /\ pc \in { "loop", "done" }
           /\ Len(action_history) < planner_requests
           /\ pc = "done" => outcome \in { "no_action", "caught", "limit" }

\* what happens to an action without recognized type: it is executed,
\* recorded as failed, and the planner is asked again
C26_BadTypeIsExecuted ==
    (variant = "main" /\ pc = "plan_next" /\ ~NoUsableAction(last_response)
       /\ Malformed(last_response))
        => /\ LastEntry.action = fix_action_format(last_response)
           /\ ~LastEntry.success

\* C27: process_command never raises an exception to its caller, in either
\* loop variant: whatever the planner returns and whatever browser calls
\* fail, the call returns normally in a terminal state.
C27_ProcessCommandNeverRaises ==
    pc = "done" => outcome # "raised"

\* C27 for playwright_llm_agent.py, whose process_command is one try block
C27_MainNeverRaises ==
    (variant = "main" /\ pc = "done")
        => outcome \in { "init_failed", "finished", "limit", "no_action",
                         "capture_failed", "caught" }

\* C28: no automatic retry: each action returned by the planner is passed
\* to execute_action at most once (the k-th execution of a command is that
\* of the action of the k-th planner response); an executed action, failed
\* or not, produces exactly one history entry; after it the loop does not
\* execute again before it has sent a new planning request.
C28_NoAutomaticRetry ==
    [][ pc # "idle" =>
          /\ exec_calls' = exec_calls + 1 =>
               /\ pc = "loop"
               /\ planner_requests = exec_calls + 1
               /\ Len(action_history') = Len(action_history) + 1
               /\ action_history'[Len(action_history')].action = action
               /\ SubSeq(action_history', 1, Len(action_history)) = action_history
          /\ pc \in { "observe", "plan_next" } =>
               /\ exec_calls' = exec_calls
               /\ action_history' = action_history
          /\ (pc = "observe" /\ pc' # "done") => pc' = "plan_next"
          /\ (pc = "plan_next" /\ pc' # "done") =>
               /\ planner_requests' = planner_requests + 1
               /\ pc' = "loop"
      ]_vars

\* C28 witness: a click failed, it was recorded once, and the planner has
\* been asked again (and has answered with the same action)
C28_Witness ==
    /\ variant = "main" /\ pc = "loop"
    /\ planner_requests = 2 /\ exec_calls = 1
    /\ Len(action_history) = 1 /\ ~action_history[1].success
    /\ action_history[1].action = A_click /\ last_response = A_click

\* C29: planner requests and action executions strictly alternate within a
\* command, in both variants: one step of process_command is a planner
\* request or an execute_action call, never both; the executions never run
\* ahead of the requests nor fall more than one behind, so that exactly one
\* request lies between two consecutive executions; and a subsequent request
\* is issued only when the history entry of the preceding action has been
\* appended, which it carries.
C29_RequestsAndExecutionsAlternate ==
    [][ pc \notin { "idle", "done" } =>
          /\ exec_calls' \in { exec_calls, exec_calls + 1 }
          /\ planner_requests' \in { planner_requests, planner_requests + 1 }
          /\ ~(exec_calls' # exec_calls /\ planner_requests' # planner_requests)
          /\ planner_requests' >= 1 =>
               exec_calls' \in { planner_requests' - 1, planner_requests' }
          /\ exec_calls' = exec_calls + 1 => planner_requests = exec_calls + 1
          /\ (planner_requests' = planner_requests + 1 /\ planner_requests >= 1) =>
               /\ exec_calls = planner_requests
               /\ action_history # << >>
               /\ LastEntry.action = action
               /\ ~sent'.initial
               /\ sent'.history = action_history
      ]_vars

\* C29 witness: two executions with one request between them, which
\* carried the entry of the first
C29_Witness ==
    /\ pc = "observe" /\ exec_calls = 2 /\ planner_requests = 2
    /\ Len(action_history) = 2 /\ ~sent.initial
    /\ sent.history = << action_history[1] >>
    /\ action_history[1].action # action_history[2].action

CallsBy(calls, by) == { i \in DOMAIN calls : calls[i].by = by }

\* C31: a select action never uses a generic fallback: it only ever acts on
\* the element identified by its own selector (when it has one) or its ref;
\* a type action uses the generic input-like fallback only after its
\* selector strategy and its ref strategy have both been tried, as far as
\* the action carries them, and neither has filled an element.
C31_GenericFallbackOnlyForType ==
    /\ (Executed /\ Get(call.action, "type") = "select") =>
          LET own == IF Truthy(Get(call.action, "selector")) THEN "selector" ELSE "ref"
          IN  /\ \A i \in DOMAIN call.calls : call.calls[i].by \in { "page", own }
              /\ call.result[1] = "Successfully selected" <=>
                    \E i \in CallsBy(call.calls, own) :
                        call.calls[i] = BrowserCall("select_option", own, "ok")
    /\ (Executed /\ Get(call.action, "type") = "type") =>
          \A i \in CallsBy(call.calls, "generic") :
              /\ Truthy(Get(call.action, "selector")) =>
                    \E j \in CallsBy(call.calls, "selector") : j < i
              /\ Truthy(Get(call.action, "ref")) =>
                    \E j \in CallsBy(call.calls, "ref") : j < i
              /\ \A j \in 1..(i - 1) :
                    ~(call.calls[j].op = "fill" /\ call.calls[j].res = "ok")

\* C31 witness: the selector of a type action matched nothing, the fill by
\* ref raised, and only then the generic input was filled
C31_Witness ==
    /\ Executed /\ call.action = A_typeBoth
    /\ call.calls = << BrowserCall("wait_for_load_state", "page", "ok"),
                       BrowserCall("count", "selector", "zero"),
                       BrowserCall("count", "ref", "found"),
                       BrowserCall("fill", "ref", "raise"),
                       BrowserCall("count", "generic", "found"),
                       BrowserCall("fill", "generic", "ok") >>
    /\ ~HasError(call.result)

\* a select whose selector matched nothing failed without touching any
\* other element, although the generic strategies would have found one
C31_SelectWitness ==
    /\ Executed /\ call.action = A_selectBoth
    /\ call.orc.sel = "none" /\ call.orc.gen = "ok"
    /\ call.calls = << BrowserCall("wait_for_load_state", "page", "ok"),
                       BrowserCall("wait_for_selector", "selector", "raise") >>

\* a diff capture has been called on its own and has sampled the page
DiffCaptured ==
    /\ CaptureCalled /\ call.diff_only
    /\ call.co \in { "direct", "empty" }

\* C32: capture with diff_only=true returns the full formatted snapshot
\* text (not a diff and not the no-change marker) when no previous capture
\* has been stored, and otherwise returns a delta computed against the text
\* stored by the most recent capture that stored one (after a direct capture
\* of the same DOM, the text of that capture).
C32_DiffAgainstStoredText ==
    DiffCaptured =>
        LET text == Sampled(page, call.co) IN
        /\ call.before = NoSnapshot =>
             /\ call.out = text
             /\ call.out[1] = "- Page Snapshot"
        /\ call.before # NoSnapshot =>
             /\ call.out = IF call.before = text THEN NoChangeMarker
                           ELSE << "- Page Snapshot (diff)", "~~~diff", "--- prev",
                                   "+++ curr" >>
                                  \o call.before \o << "@@" >> \o text \o << "~~~" >>
        /\ (call.prev.made /\ call.prev.co = "direct") =>
             call.before = format_snapshot(DirectLines(page))

\* C32 witness: the page changed after a stored capture and the diff
\* capture returned the delta from the stored text to the new one
C32_Witness ==
    /\ DiffCaptured /\ call.co = "direct"
    /\ call.before = format_snapshot(DirectLines("pA")) /\ page = "pB"
    /\ call.out[1] = "- Page Snapshot (diff)"
    /\ snapshot_data = format_snapshot(DirectLines("pB"))

\* the first capture of a fresh object, asked for a diff, returned the full
\* text
C32_FirstCaptureWitness ==
    /\ DiffCaptured /\ call.co = "direct" /\ call.before = NoSnapshot
    /\ call.out = format_snapshot(DirectLines(page))

C33_RepeatWitness ==
    /\ CaptureCalled /\ ~call.force_refresh /\ ~call.diff_only
    /\ call.prev.made /\ call.prev.co = "direct" /\ call.co = "empty"
    /\ call.calls = << "url", "ready", "eval", "title", "body" >>
    /\ call.out = FallbackText

\* C34: process_command stops for a capture problem only if capture
\* actually failed: a capture that succeeded on a page whose visible text
\* contains "Error:" does not stop the loop, neither at the initial snapshot
\* nor after an action.
C34_StopsOnlyOnFailedCapture ==
    StoppedForCapture =>
        /\ last_sampled = ErrorSnapshot
        /\ capture_errors >= 1

\* C34 on pages whose text does not hold "Error:"
C34_PlainPagesStopOnlyOnFailure ==
    (StoppedForCapture /\ page # "pErr") =>
        /\ last_sampled = ErrorSnapshot
        /\ capture_errors >= 1

\* what happens on a page showing "Error: denied": the capture succeeds and
\* the command stops
C34_ErrorTextStops ==
    (variant = "main" /\ pc \in { "plan_initial", "plan_next", "loop" })
        => ~HasErrorColon(current_snapshot)

\* the kinds whose outcome string is built from the action alone
EchoingKinds == { "click", "type", "select", "wait", "scroll", "enter" }

\* C35: the success flag of a history entry is true whenever the action's
\* interaction was performed successfully, whatever strings the action
\* carries: typing a text that contains "Error" still yields success = true.
C35_PerformedMeansSuccess ==
    (variant = "main" /\ pc = "observe" /\ exec_performed
       /\ Get(action, "type") \in EchoingKinds)
        => LastEntry.success

\* C35 for the actions none of whose strings holds "Error"
C35_PlainStringsMeanSuccess ==
    (variant = "main" /\ pc = "observe" /\ exec_performed
       /\ Get(action, "type") \in EchoingKinds
       /\ \A k \in DOMAIN action : ~HasError(<< action[k] >>))
        => LastEntry.success

\* what happens to type(ref e1, text "Error") when the fill went through:
\* the outcome echoes the text and the entry is marked failed
C35_ErrorTextMarkedFailed ==
    (variant = "main" /\ pc = "observe" /\ exec_performed /\ action = A_typeErr)
        => /\ ~LastEntry.success
           /\ LastEntry.result[1] = "Successfully typed"

\* C36: a navigate action whose navigation fails is recorded in
\* action_history with success = false, in both variants.
C36_FailedNavigateRecordedFailed ==
    (pc = "observe" /\ Get(action, "type") = "navigate" /\ ~exec_performed)
        => ~LastEntry.success

\* C36 in agent.py, whose _run_action returns navigate()'s own string
C36_ModFailedNavigateRecordedFailed ==
    (variant = "mod" /\ pc = "observe" /\ Get(action, "type") = "navigate"
       /\ ~exec_performed)
        => /\ ~LastEntry.success
           /\ LastEntry.result[1] = "Error: could not navigate"

\* what playwright_llm_agent.py records for a navigate with a url: the
\* outcome string is built from the url and a length, whether or not goto
\* went through
C36_MainNavigateAlwaysSuccess ==
    (variant = "main" /\ pc = "observe" /\ action = A_navigate)
        => /\ LastEntry.success
           /\ LastEntry.result[1] = "Navigated to"

\* the closing message says the task was completed
ReportsCompleted ==
    \E i \in 1..Len(report) : report[i] \in { "Task completed", "Task completed!" }

\* C37: process_command reports that the task was completed only when a
\* finish action was received: a loop that ended because a capture failed,
\* or because the planner returned no action, is reported as aborted and
\* never as "Task completed".
C37_CompletedOnlyOnFinish ==
    (pc = "done" /\ ReportsCompleted) => outcome = "finished"

\* C37 apart from the two exits that fall through to line 1008: every other
\* exit reports completion only for a finish action
C37_OtherExitsReportTruthfully ==
    (pc = "done" /\ ReportsCompleted
       /\ outcome \notin { "capture_failed", "no_action" })
        => outcome = "finished"

\* what is printed when the loop is left by the break of line 999 or by an
\* empty action: the else branch of line 1007
C37_AbortedReportedCompleted ==
    (variant = "main" /\ pc = "done"
       /\ outcome \in { "capture_failed", "no_action" })
        => report = << "Task completed" >>

C38_FailedWitness ==
    /\ CaptureCalled /\ call.co = "raise" /\ call.out = ErrorSnapshot
    /\ call.before = format_snapshot(DirectLines("pB"))
    /\ snapshot_data = call.before

\* C39: _fix_action_format returns every action that already has a type
\* key unchanged, and is idempotent on every input: normalizing an already
\* normalized action returns it unchanged.
C39_NormalizationIdempotent ==
    (call.fn = "receive" /\ variant = "main") =>
        /\ (IsDict(call.action) /\ "type" \in DOMAIN call.action)
              => call.out = call.action
        /\ fix_action_format(call.out) = call.out

\* a legacy click was rewritten, and rewriting the outcome changes nothing
C39_Witness ==
    /\ call.fn = "receive" /\ variant = "main"
    /\ call.action = ("click" :> "e3")
    /\ call.out = ("type" :> "click") @@ ("ref" :> "e3")
    /\ call.out # call.action
    /\ fix_action_format(call.out) = call.out

\* an action with a type key came back as it was received
C39_TypedWitness ==
    /\ call.fn = "receive" /\ variant = "main"
    /\ call.action = A_typeErr
    /\ call.out = A_typeErr

\* an action without a type key in a shape the function does not know
C39_UnknownShapeWitness ==
    /\ call.fn = "receive" /\ variant = "main"
    /\ call.action = Legacy("navigate", [url |-> "https://example.com"])
    /\ call.out = call.action
    /\ fix_action_format(call.out) = call.out

=============================================================================
